---------------------------- MODULE Spec2Model ----------------------------
(***************************************************************************)
(* A model of the Nebula4X content validator, tools/validate_content.py.   *)
(*                                                                         *)
(* validate_all runs four loaders (resources, blueprints, tech tree,       *)
(* settings) over four JSON documents and returns the list of issues.      *)
(* The loaders are pure functions of the parsed documents and of the id    *)
(* sets forwarded to them; each is one action here.  The cycle detection   *)
(* of the tech tree loader is a recursive walk and is modelled step by     *)
(* step (one action per call, per loop iteration and per return).          *)
(*                                                                         *)
(* JSON values are tagged records:                                         *)
(*   null         [t |-> "null"]           (Python None, also "key absent" *)
(*                                          as returned by dict.get)       *)
(*   true/false   [t |-> "bool",  b |-> TRUE]                              *)
(*   integer      [t |-> "int",   n |-> 3]                                 *)
(*   float        [t |-> "float", m |-> 1500]   the value in thousandths   *)
(*   string       [t |-> "str",   s |-> "abc"]                             *)
(*   array        [t |-> "list",  items |-> << v1, v2 >>]                  *)
(*   object       [t |-> "dict",  items |-> << <<k1, v1>>, <<k2, v2>> >>]  *)
(* An object keeps its keys in document order (Python dicts iterate in     *)
(* insertion order) and its keys are distinct strings, as json.load        *)
(* produces them.  Documents are finite JSON per RFC 8259 (no NaN).        *)
(***************************************************************************)
EXTENDS Integers, Sequences, FiniteSets, TLC

VARIABLES
    files,             \* the four content files under the root (the input)
    pc,                \* position in validate_all
    issues,            \* validate_all's `issues` list
    ran,               \* the loaders called so far, in call order
    resource_ids,      \* validate_all's locals: the forwarded id sets
    component_ids,
    installation_ids,
    tech_by_id,        \* validate_tech_tree's dicts, as a sequence of [id, idx]:
                       \* the dict holds the object at index idx of the techs
    visiting,          \* cycle detection: the `visiting` set
    visited,           \* cycle detection: the `visited` set
    stack,             \* cycle detection: the `stack` list of the root call
    frames,            \* the active calls of dfs: [tid, next] per call
    root_i,            \* index of the root loop over tech_by_id.keys()
    calls,             \* number of validate_all calls made so far
    prev,              \* what the previous validate_all call returned
    call               \* a primitive checker called on its own: its arguments
                       \* and what it returned

vars == << files, pc, issues, ran, resource_ids, component_ids,
           installation_ids, tech_by_id, visiting, visited, stack, frames,
           root_i, calls, prev, call >>

---------------------------------------------------------------------------
(* JSON values and the Python operations the validator applies to them.    *)

Null == [t |-> "null"]
JBool(b) == [t |-> "bool", b |-> b]
JInt(n) == [t |-> "int", n |-> n]
JFloat(m) == [t |-> "float", m |-> m]
JStr(s) == [t |-> "str", s |-> s]
JList(items) == [t |-> "list", items |-> items]
JDict(items) == [t |-> "dict", items |-> items]

IsDict(v) == v.t = "dict"
IsList(v) == v.t = "list"
IsStr(v) == v.t = "str"

\* isinstance(v, str) and v: a non-empty string.
IsNonEmptyStr(v) == v.t = "str" /\ v.s # ""

\* `k in d` for a dict d.
Has(d, k) == \E i \in 1..Len(d.items) : d.items[i][1] = k

\* d.get(k): the value at k, or None.
Get(d, k) ==
    IF Has(d, k)
    THEN d.items[CHOOSE i \in 1..Len(d.items) : d.items[i][1] = k][2]
    ELSE Null

\* set(d.keys())
KeySet(d) == { d.items[i][1] : i \in 1..Len(d.items) }

RECURSIVE Flatten(_)
\* The concatenation of a sequence of sequences: what a loop whose
\* iterations only append leaves in the list (the first half of the
\* iterations, then the second).
Flatten(ss) ==
    IF ss = << >> THEN << >>
    ELSE IF Len(ss) = 1 THEN ss[1]
    ELSE LET h == Len(ss) \div 2
         IN  Flatten(SubSeq(ss, 1, h)) \o Flatten(SubSeq(ss, h + 1, Len(ss)))

---------------------------------------------------------------------------
(* Issues and their addresses.                                             *)

ResourcesFile == "data/blueprints/resources.json"
BlueprintsFile == "data/blueprints/starting_blueprints.json"
TechFile == "data/tech/tech_tree.json"
SettingsFile == "data/settings.json"

ValidationIssue(file, pointer, message) ==
    [file |-> file, pointer |-> pointer, message |-> message]

\* A pointer part is a string (an object key) or an int (an array index).
K(s) == [k |-> "str", s |-> s]
I(n) == [k |-> "int", n |-> n]

\* esc(p): p.replace("~", "~0").replace("/", "~1").  The strings of the
\* model that hold a "~" or a "/" are exactly the three listed here.
Esc(s) ==
    CASE s = "a/b" -> "a~1b"
      [] s = "a~b" -> "a~0b"
      [] s = "a~1b" -> "a~01b"
      [] OTHER -> s

Digit(n) ==
    CASE n = 0 -> "0" [] n = 1 -> "1" [] n = 2 -> "2" [] n = 3 -> "3"
      [] n = 4 -> "4" [] n = 5 -> "5" [] n = 6 -> "6" [] n = 7 -> "7"
      [] n = 8 -> "8" [] n = 9 -> "9"

RECURSIVE IntStr(_)
\* str(p) for an array index: its decimal digits.
IntStr(n) == IF n < 10 THEN Digit(n) ELSE IntStr(n \div 10) \o Digit(n % 10)

RECURSIVE JoinParts(_)
JoinParts(parts) ==
    IF parts = << >> THEN ""
    ELSE "/" \o (IF Head(parts).k = "int" THEN IntStr(Head(parts).n)
                                         ELSE Esc(Head(parts).s))
             \o JoinParts(Tail(parts))

\* _json_pointer(parts): "/" + "/".join(out) if out else "".
JsonPointer(parts) == JoinParts(parts)

---------------------------------------------------------------------------
(* The primitive checkers.  Each returns [ok, iss]: ok is "the result is   *)
(* not None" and iss holds the issue it appended, if any.                  *)

\* ret is the value returned (None on a failure) and exc the exception that
\* left the checker, "" if it returned.
Pass(v) == [ok |-> TRUE, iss |-> << >>, ret |-> v, exc |-> ""]
Fail(file, parts, message) ==
    [ok |-> FALSE, iss |-> << ValidationIssue(file, JsonPointer(parts), message) >>,
     ret |-> Null, exc |-> ""]
Raise(e) == [ok |-> FALSE, iss |-> << >>, ret |-> Null, exc |-> e]

\* min_value: None, an int (_require_int) or a float (_require_number);
\* txt is how the f-string renders it.
NoMin == [has |-> FALSE, n |-> 0, m |-> 0, txt |-> ""]
IntMin0 == [has |-> TRUE, n |-> 0, m |-> 0, txt |-> "0"]
IntMin1 == [has |-> TRUE, n |-> 1, m |-> 1000, txt |-> "1"]
FloatMin0 == [has |-> TRUE, n |-> 0, m |-> 0, txt |-> "0.0"]
FloatMinMilli == [has |-> TRUE, n |-> 0, m |-> 1, txt |-> "0.001"]

\* _is_number(x): an int or a float, not a bool.
IsNumber(v) == v.t \in {"int", "float"}

\* float(v), in thousandths.
FloatOf(v) == IF v.t = "int" THEN v.n * 1000 ELSE v.m

\* float(v) raises OverflowError for an int beyond the range of a double
\* (about 1.8e308; json.load reads an integer literal of up to 4300 digits
\* as an int).  FloatMax stands for the largest int that float() converts,
\* scaled down to the integers of the model: the one int above it is
\* HugeInt, and only the checker calls of SpecCheckers are given it.
FloatMax == 1000000
HugeInt == FloatMax + 1
FloatOverflows(v) == v.t = "int" /\ (v.n > FloatMax \/ v.n < -FloatMax)

\* json.load gives every object string keys, so the key loop of
\* _require_dict (lines 76-79) never fails on a parsed document.
RequireDict(file, parts, v, what) ==
    IF ~IsDict(v) THEN Fail(file, parts, what \o " must be an object")
    ELSE Pass(v)

RequireList(file, parts, v, what) ==
    IF ~IsList(v) THEN Fail(file, parts, what \o " must be an array")
    ELSE Pass(v)

RequireStr(file, parts, v, what) ==
    IF ~IsStr(v) \/ v.s = ""
    THEN Fail(file, parts, what \o " must be a non-empty string")
    ELSE Pass(v)

RequireInt(file, parts, v, what, min) ==
    IF v.t # "int" THEN Fail(file, parts, what \o " must be an integer")
    ELSE IF min.has /\ v.n < min.n
         THEN Fail(file, parts, what \o " must be >= " \o min.txt)
         ELSE Pass(v)

\* _require_number rejecting a value equal to its lower bound.
RequireNumber_ExclusiveMin(file, parts, v, what, min) ==
    IF ~IsNumber(v) THEN Fail(file, parts, what \o " must be a number")
    ELSE IF FloatOverflows(v) THEN Raise("OverflowError")
    ELSE IF min.has /\ FloatOf(v) <= min.m
         THEN Fail(file, parts, what \o " must be >= " \o min.txt)
         ELSE Pass(JFloat(FloatOf(v)))

RequireNumber(file, parts, v, what, min) ==
    IF ~IsNumber(v) THEN Fail(file, parts, what \o " must be a number")
    ELSE IF FloatOverflows(v) THEN Raise("OverflowError")
    ELSE IF min.has /\ FloatOf(v) < min.m
         THEN Fail(file, parts, what \o " must be >= " \o min.txt)
         ELSE Pass(JFloat(FloatOf(v)))

RequireBool(file, parts, v, what) ==
    IF v.t # "bool" THEN Fail(file, parts, what \o " must be true/false")
    ELSE Pass(v)

---------------------------------------------------------------------------
(* A content file is missing, unparsable, or holds a JSON document.        *)

Missing == [st |-> "missing"]
Unparsable == [st |-> "unparsable"]
Doc(data) == [st |-> "ok", data |-> data]

\* The text of the exception json.load raises on the unparsable files of
\* the model.
ParseError == "Expecting value: line 1 column 1 (char 0)"

\* A variant of the head of a loader that reports no parse failure.
FileIssue_NoParseIssue(file, f) ==
    IF f.st = "missing" THEN << ValidationIssue(file, "", "file not found") >>
    ELSE IF f.st = "unparsable" THEN << >>
         ELSE RequireDict(file, << >>, f.data, "root").iss

\* The head of every loader: path.exists(), _load_json, the root object.
\* A loader returns None or a dict; of the dict only the keys are used.
FileIssue(file, f) ==
    IF f.st = "missing" THEN << ValidationIssue(file, "", "file not found") >>
    ELSE IF f.st = "unparsable"
         THEN << ValidationIssue(file, "", "failed to parse JSON: " \o ParseError) >>
         ELSE RequireDict(file, << >>, f.data, "root").iss

HasTop(f) == f.st = "ok" /\ IsDict(f.data)

NoneRet == [none |-> TRUE, keys |-> {}]
DictRet(keys) == [none |-> FALSE, keys |-> keys]

\* set(d.keys()) if d else set(), as validate_all converts a returned dict.
IdSet(r) == IF r.none \/ r.keys = {} THEN {} ELSE r.keys

---------------------------------------------------------------------------
(* validate_resources                                                      *)

\* A resource loop that leaves a record at the first field that fails.
ResourceIssues_FirstFailureOnly(rid, robj) ==
    LET rparts == << K("resources"), K(rid) >>
        path == ResourcesFile
        name == RequireStr(path, rparts \o << K("name") >>, Get(robj, "name"), "name")
        category == RequireStr(path, rparts \o << K("category") >>,
                               Get(robj, "category"), "category")
        mineable == RequireBool(path, rparts \o << K("mineable") >>,
                                Get(robj, "mineable"), "mineable")
    IN  IF rid = ""
        THEN << ValidationIssue(path, JsonPointer(rparts),
                                "resource id must be a non-empty string") >>
        ELSE IF ~RequireDict(path, rparts, robj, "resource '" \o rid \o "'").ok
        THEN RequireDict(path, rparts, robj, "resource '" \o rid \o "'").iss
        ELSE IF ~name.ok THEN name.iss
        ELSE IF ~category.ok THEN category.iss
        ELSE IF ~mineable.ok THEN mineable.iss
        ELSE RequireNumber(path, rparts \o << K("salvage_research_rp_per_ton") >>,
                           Get(robj, "salvage_research_rp_per_ton"),
                           "salvage_research_rp_per_ton", FloatMin0).iss

ResourceIssues(rid, robj) ==
    LET rparts == << K("resources"), K(rid) >>
        path == ResourcesFile
    IN  IF rid = ""
        THEN << ValidationIssue(path, JsonPointer(rparts),
                                "resource id must be a non-empty string") >>
        ELSE IF ~RequireDict(path, rparts, robj, "resource '" \o rid \o "'").ok
        THEN RequireDict(path, rparts, robj, "resource '" \o rid \o "'").iss
        ELSE RequireStr(path, rparts \o << K("name") >>, Get(robj, "name"), "name").iss
          \o RequireStr(path, rparts \o << K("category") >>,
                        Get(robj, "category"), "category").iss
          \o RequireBool(path, rparts \o << K("mineable") >>,
                         Get(robj, "mineable"), "mineable").iss
          \o RequireNumber(path, rparts \o << K("salvage_research_rp_per_ton") >>,
                           Get(robj, "salvage_research_rp_per_ton"),
                           "salvage_research_rp_per_ton", FloatMin0).iss

ValidateResources(f) ==
    IF ~HasTop(f) THEN [iss |-> FileIssue(ResourcesFile, f), ret |-> NoneRet]
    ELSE
    LET top == f.data
        path == ResourcesFile
        version == RequireInt(path, << K("version") >>, Get(top, "version"),
                              "version", IntMin1)
        resources == Get(top, "resources")
        rcheck == RequireDict(path, << K("resources") >>, resources, "resources")
    IN  IF ~rcheck.ok THEN [iss |-> version.iss \o rcheck.iss, ret |-> NoneRet]
        ELSE [iss |-> version.iss \o
                      Flatten([i \in 1..Len(resources.items) |->
                                 ResourceIssues(resources.items[i][1],
                                                resources.items[i][2])]),
              ret |-> DictRet(KeySet(resources))]

---------------------------------------------------------------------------
(* validate_settings                                                       *)

\* The strings of the model that datetime.date.fromisoformat accepts.
IsoDates == {"2200-01-01", "22000101"}

ValidateSettings(f) ==
    IF ~HasTop(f) THEN FileIssue(SettingsFile, f)
    ELSE
    LET top == f.data
        path == SettingsFile
        sim == Get(top, "sim")
        start == Get(sim, "startDate")
        startOk == RequireStr(path, << K("sim"), K("startDate") >>, start, "startDate")
    IN  (IF Has(top, "startingScenario")
         THEN RequireStr(path, << K("startingScenario") >>,
                         Get(top, "startingScenario"), "startingScenario").iss
         ELSE << >>)
        \o
        (IF sim = Null THEN << >>
         ELSE IF ~RequireDict(path, << K("sim") >>, sim, "sim").ok
         THEN RequireDict(path, << K("sim") >>, sim, "sim").iss
         ELSE (IF ~Has(sim, "startDate") THEN << >>
               ELSE IF ~startOk.ok THEN startOk.iss
               ELSE IF start.s \in IsoDates THEN << >>
               ELSE << ValidationIssue(path, JsonPointer(<< K("sim"), K("startDate") >>),
                                       "startDate must be YYYY-MM-DD") >>)
              \o
              (IF Has(sim, "secondsPerDay")
               THEN RequireInt(path, << K("sim"), K("secondsPerDay") >>,
                               Get(sim, "secondsPerDay"), "secondsPerDay", IntMin1).iss
               ELSE << >>))

---------------------------------------------------------------------------
(* validate_blueprints                                                     *)

AllowedComponentTypes ==
    {"armor", "cargo", "colony_module", "engine", "fuel_tank", "mining",
     "reactor", "sensor", "shield", "troop_bay", "weapon"}

AllowedShipRoles == {"freighter", "surveyor", "combatant", "unknown"}

\* A variant of the map entry check that leaves the entry after an unknown
\* key.
ResourceEntryIssues_UnknownKeyOnly(file, parts, what, k, amt, rids) ==
    IF k = ""
    THEN << ValidationIssue(file, JsonPointer(parts),
                            what \o " resource keys must be non-empty strings") >>
    ELSE IF k \notin rids
    THEN << ValidationIssue(file, JsonPointer(parts \o << K(k) >>),
                            "unknown resource '" \o k \o "'") >>
    ELSE RequireNumber(file, parts \o << K(k) >>, amt,
                       what \o "['" \o k \o "']", FloatMin0).iss

\* _validate_resource_map: one entry of the map.
ResourceEntryIssues(file, parts, what, k, amt, rids) ==
    IF k = ""
    THEN << ValidationIssue(file, JsonPointer(parts),
                            what \o " resource keys must be non-empty strings") >>
    ELSE (IF k \notin rids
          THEN << ValidationIssue(file, JsonPointer(parts \o << K(k) >>),
                                  "unknown resource '" \o k \o "'") >>
          ELSE << >>)
         \o RequireNumber(file, parts \o << K(k) >>, amt,
                          what \o "['" \o k \o "']", FloatMin0).iss

ValidateResourceMap(file, parts, v, what, rids) ==
    IF ~RequireDict(file, parts, v, what).ok
    THEN RequireDict(file, parts, v, what).iss
    ELSE Flatten([i \in 1..Len(v.items) |->
                    ResourceEntryIssues(file, parts, what, v.items[i][1],
                                        v.items[i][2], rids)])

\* The outcome of (path.parent / s).resolve() and inc_path.exists() for the
\* include strings of the model: "extra.json" exists, "a\\0b" stands for
\* a name with an embedded NUL ("a\u0000b" in the document), for which
\* Path.resolve raises ValueError; every other name does not exist.
ExistingIncludes == {"extra.json"}
RaisingIncludes == {"a\\0b"}

IncludeEntryIssues(i, entry) ==
    LET path == BlueprintsFile
        s == RequireStr(path, << K("include"), I(i - 1) >>, entry, "include entry")
    IN  IF ~s.ok THEN s.iss
        ELSE IF entry.s \in ExistingIncludes THEN << >>
        ELSE << ValidationIssue(path, JsonPointer(<< K("include"), I(i - 1) >>),
                                "included file not found: " \o entry.s) >>

\* The index of the first include entry whose path lookup raises, or 0.
IncludeRaisesAt(inc) ==
    IF ~IsList(inc) THEN 0
    ELSE LET bad == { i \in 1..Len(inc.items) :
                        IsNonEmptyStr(inc.items[i]) /\ inc.items[i].s \in RaisingIncludes }
         IN  IF bad = {} THEN 0 ELSE CHOOSE i \in bad : \A j \in bad : i <= j

\* Lines 236-247: the optional include list.
IncludeIssues(inc) ==
    IF inc = Null THEN << >>
    ELSE IF ~RequireList(BlueprintsFile, << K("include") >>, inc, "include").ok
    THEN RequireList(BlueprintsFile, << K("include") >>, inc, "include").iss
    ELSE LET n == IF IncludeRaisesAt(inc) = 0 THEN Len(inc.items)
                  ELSE IncludeRaisesAt(inc) - 1
         IN  Flatten([i \in 1..n |-> IncludeEntryIssues(i, inc.items[i])])

\* _require_number on the field of a component named like its label.
NumField(cparts, cdict, field, min) ==
    RequireNumber(BlueprintsFile, cparts \o << K(field) >>, Get(cdict, field),
                  field, min).iss

IntField(cparts, cdict, field, min) ==
    RequireInt(BlueprintsFile, cparts \o << K(field) >>, Get(cdict, field),
               field, min).iss

\* A variant of the weapon branch in which a group is present when both of
\* its leading fields are.
WeaponIssues_BothFields(cparts, cdict) ==
    LET has_beam == Has(cdict, "damage") /\ Has(cdict, "weapon_range_mkm")
        has_missile == Has(cdict, "missile_damage") /\ Has(cdict, "missile_range_mkm")
        has_pd == Has(cdict, "point_defense_damage")
                  /\ Has(cdict, "point_defense_range_mkm")
    IN  (IF ~(has_beam \/ has_missile \/ has_pd)
         THEN << ValidationIssue(BlueprintsFile, JsonPointer(cparts),
                    "weapon must define beam/missile/point-defense fields") >>
         ELSE << >>)
        \o (IF has_beam
            THEN NumField(cparts, cdict, "damage", FloatMin0)
                 \o NumField(cparts, cdict, "weapon_range_mkm", FloatMin0)
            ELSE << >>)
        \o (IF has_missile
            THEN NumField(cparts, cdict, "missile_damage", FloatMin0)
                 \o NumField(cparts, cdict, "missile_range_mkm", FloatMin0)
                 \o NumField(cparts, cdict, "missile_speed_mkm_per_day", FloatMin0)
                 \o IntField(cparts, cdict, "missile_reload_days", IntMin0)
                 \o IntField(cparts, cdict, "missile_ammo", IntMin0)
            ELSE << >>)
        \o (IF has_pd
            THEN NumField(cparts, cdict, "point_defense_damage", FloatMin0)
                 \o NumField(cparts, cdict, "point_defense_range_mkm", FloatMin0)
            ELSE << >>)

\* Lines 338-412: the weapon branch.
WeaponIssues(cparts, cdict) ==
    LET has_beam == Has(cdict, "damage") \/ Has(cdict, "weapon_range_mkm")
        has_missile == Has(cdict, "missile_damage") \/ Has(cdict, "missile_range_mkm")
        has_pd == Has(cdict, "point_defense_damage")
                  \/ Has(cdict, "point_defense_range_mkm")
    IN  (IF ~(has_beam \/ has_missile \/ has_pd)
         THEN << ValidationIssue(BlueprintsFile, JsonPointer(cparts),
                    "weapon must define beam/missile/point-defense fields") >>
         ELSE << >>)
        \o (IF has_beam
            THEN NumField(cparts, cdict, "damage", FloatMin0)
                 \o NumField(cparts, cdict, "weapon_range_mkm", FloatMin0)
            ELSE << >>)
        \o (IF has_missile
            THEN NumField(cparts, cdict, "missile_damage", FloatMin0)
                 \o NumField(cparts, cdict, "missile_range_mkm", FloatMin0)
                 \o NumField(cparts, cdict, "missile_speed_mkm_per_day", FloatMin0)
                 \o IntField(cparts, cdict, "missile_reload_days", IntMin0)
                 \o IntField(cparts, cdict, "missile_ammo", IntMin0)
            ELSE << >>)
        \o (IF has_pd
            THEN NumField(cparts, cdict, "point_defense_damage", FloatMin0)
                 \o NumField(cparts, cdict, "point_defense_range_mkm", FloatMin0)
            ELSE << >>)

\* Lines 272-434: the per-type required fields; ctype is the declared type
\* when it is a non-empty string, and "" stands for None.
TypeIssues(cparts, cdict, ctype) ==
    CASE ctype = "engine" ->
            NumField(cparts, cdict, "speed_km_s", FloatMinMilli)
            \o NumField(cparts, cdict, "fuel_use_per_mkm", FloatMin0)
      [] ctype = "cargo" -> NumField(cparts, cdict, "cargo_tons", FloatMinMilli)
      [] ctype = "mining" ->
            NumField(cparts, cdict, "mining_tons_per_day", FloatMinMilli)
      [] ctype = "fuel_tank" ->
            NumField(cparts, cdict, "fuel_capacity_tons", FloatMinMilli)
      [] ctype = "colony_module" ->
            NumField(cparts, cdict, "colony_capacity_millions", FloatMinMilli)
      [] ctype = "troop_bay" -> IntField(cparts, cdict, "troop_capacity", IntMin1)
      [] ctype = "sensor" ->
            (IF Has(cdict, "range_mkm")
             THEN NumField(cparts, cdict, "range_mkm", FloatMinMilli) ELSE << >>)
            \o (IF Has(cdict, "ecm_strength")
                THEN NumField(cparts, cdict, "ecm_strength", FloatMin0) ELSE << >>)
            \o (IF Has(cdict, "eccm_strength")
                THEN NumField(cparts, cdict, "eccm_strength", FloatMin0) ELSE << >>)
      [] ctype = "reactor" -> NumField(cparts, cdict, "power", FloatMinMilli)
      [] ctype = "weapon" -> WeaponIssues(cparts, cdict)
      [] ctype = "armor" ->
            (IF Has(cdict, "hp_bonus")
             THEN NumField(cparts, cdict, "hp_bonus", FloatMin0) ELSE << >>)
            \o (IF Has(cdict, "signature_multiplier")
                THEN NumField(cparts, cdict, "signature_multiplier", FloatMin0)
                ELSE << >>)
      [] ctype = "shield" ->
            NumField(cparts, cdict, "shield_hp", FloatMinMilli)
            \o NumField(cparts, cdict, "shield_regen_per_day", FloatMin0)
      [] OTHER -> << >>

\* Lines 255-437: one iteration of the component loop.
ComponentIssues(cid, cobj) ==
    LET path == BlueprintsFile
        cparts == << K("components"), K(cid) >>
        cdictOk == RequireDict(path, cparts, cobj, "component '" \o cid \o "'")
        name == RequireStr(path, cparts \o << K("name") >>, Get(cobj, "name"), "name")
        tcheck == RequireStr(path, cparts \o << K("type") >>, Get(cobj, "type"), "type")
        ctype == IF tcheck.ok THEN Get(cobj, "type").s ELSE ""
        mass == Get(cobj, "mass_tons")
    IN  IF cid = ""
        THEN << ValidationIssue(path, JsonPointer(cparts),
                                "component id must be a non-empty string") >>
        ELSE IF ~cdictOk.ok THEN cdictOk.iss
        ELSE name.iss \o tcheck.iss
             \o (IF tcheck.ok /\ ctype \notin AllowedComponentTypes
                 THEN << ValidationIssue(path, JsonPointer(cparts \o << K("type") >>),
                                         "unknown component type '" \o ctype \o "'") >>
                 ELSE << >>)
             \o (IF mass # Null
                 THEN RequireNumber(path, cparts \o << K("mass_tons") >>, mass,
                                    "mass_tons", FloatMin0).iss
                 ELSE << >>)
             \o TypeIssues(cparts, cobj, ctype)

\* A loop that keeps a component only if its type is a known one as well.
ComponentRetained_KnownTypeOnly(cid, cobj) ==
    /\ cid # ""
    /\ IsDict(cobj)
    /\ IsNonEmptyStr(Get(cobj, "name"))
    /\ IsStr(Get(cobj, "type")) /\ Get(cobj, "type").s \in AllowedComponentTypes

\* Line 436: the component is kept in `components` when its name is valid.
ComponentRetained(cid, cobj) ==
    /\ cid # ""
    /\ RequireDict(BlueprintsFile, << K("components"), K(cid) >>, cobj, "component").ok
    /\ RequireStr(BlueprintsFile, << K("components"), K(cid), K("name") >>,
                  Get(cobj, "name"), "name").ok

\* A variant of the component list check that reports an unknown id at the
\* address of the list.
DesignComponentIssues_AtList(dparts, comp_list, components) ==
    Flatten([j \in 1..Len(comp_list.items) |->
        LET slot == dparts \o << K("components"), I(j - 1) >>
            cid2 == RequireStr(BlueprintsFile, slot, comp_list.items[j], "component id")
        IN  IF ~cid2.ok THEN cid2.iss
            ELSE IF comp_list.items[j].s \notin components
            THEN << ValidationIssue(BlueprintsFile,
                       JsonPointer(dparts \o << K("components") >>),
                       "unknown component '" \o comp_list.items[j].s \o "'") >>
            ELSE << >>])

\* A variant of the component list check without the lookup of line 462.
DesignComponentIssues_NoLookup(dparts, comp_list, components) ==
    Flatten([j \in 1..Len(comp_list.items) |->
        RequireStr(BlueprintsFile, dparts \o << K("components"), I(j - 1) >>,
                   comp_list.items[j], "component id").iss])

\* Lines 457-464: the component list of design i (dparts = designs/i).
DesignComponentIssues(dparts, comp_list, components) ==
    Flatten([j \in 1..Len(comp_list.items) |->
        LET slot == dparts \o << K("components"), I(j - 1) >>
            cid2 == RequireStr(BlueprintsFile, slot, comp_list.items[j], "component id")
        IN  IF ~cid2.ok THEN cid2.iss
            ELSE IF comp_list.items[j].s \notin components
            THEN << ValidationIssue(BlueprintsFile, JsonPointer(slot),
                       "unknown component '" \o comp_list.items[j].s \o "'") >>
            ELSE << >>])

\* A variant of the role check without the enumeration.
RoleIssues_NoEnum(dparts, d) ==
    RequireStr(BlueprintsFile, dparts \o << K("role") >>, Get(d, "role"), "role").iss

\* Lines 453-456: the role of a design.
RoleIssues(dparts, d) ==
    LET role == RequireStr(BlueprintsFile, dparts \o << K("role") >>,
                           Get(d, "role"), "role")
    IN  role.iss
        \o (IF role.ok /\ Get(d, "role").s \notin AllowedShipRoles
            THEN << ValidationIssue(BlueprintsFile,
                       JsonPointer(dparts \o << K("role") >>),
                       "unknown ship role '" \o Get(d, "role").s \o "'") >>
            ELSE << >>)

\* Lines 443-464: one iteration of the design loop; design_ids is the
\* running set before the iteration.
\* An iteration that leaves a design at its duplicate id.
DesignIssues_DuplicateRejected(i, dobj, design_ids, components) ==
    LET path == BlueprintsFile
        dparts == << K("designs"), I(i - 1) >>
        d == RequireDict(path, dparts, dobj, "design")
        did == RequireStr(path, dparts \o << K("id") >>, Get(dobj, "id"), "id")
        comp_list == Get(dobj, "components")
        clist == RequireList(path, dparts \o << K("components") >>, comp_list,
                             "components")
    IN  IF ~d.ok THEN d.iss
        ELSE IF did.ok /\ Get(dobj, "id").s \in design_ids
        THEN << ValidationIssue(path, JsonPointer(dparts \o << K("id") >>),
                   "duplicate design id '" \o Get(dobj, "id").s \o "'") >>
        ELSE did.iss
             \o RequireStr(path, dparts \o << K("name") >>, Get(dobj, "name"), "name").iss
             \o RoleIssues(dparts, dobj)
             \o clist.iss
             \o (IF clist.ok THEN DesignComponentIssues(dparts, comp_list, components)
                 ELSE << >>)

DesignIssues(i, dobj, design_ids, components) ==
    LET path == BlueprintsFile
        dparts == << K("designs"), I(i - 1) >>
        d == RequireDict(path, dparts, dobj, "design")
        did == RequireStr(path, dparts \o << K("id") >>, Get(dobj, "id"), "id")
        comp_list == Get(dobj, "components")
        clist == RequireList(path, dparts \o << K("components") >>, comp_list,
                             "components")
    IN  IF ~d.ok THEN d.iss
        ELSE did.iss
             \o (IF did.ok /\ Get(dobj, "id").s \in design_ids
                 THEN << ValidationIssue(path, JsonPointer(dparts \o << K("id") >>),
                            "duplicate design id '" \o Get(dobj, "id").s \o "'") >>
                 ELSE << >>)
             \o RequireStr(path, dparts \o << K("name") >>, Get(dobj, "name"), "name").iss
             \o RoleIssues(dparts, dobj)
             \o clist.iss
             \o (IF clist.ok THEN DesignComponentIssues(dparts, comp_list, components)
                 ELSE << >>)

\* design_ids after iteration i.
DesignIdsAfter(dobj, design_ids) ==
    IF IsDict(dobj) /\ IsNonEmptyStr(Get(dobj, "id"))
    THEN design_ids \cup {Get(dobj, "id").s}
    ELSE design_ids

RECURSIVE DesignLoop(_, _, _, _)
\* Lines 443-464: the loop over the designs from index i on.
DesignLoop(designs, i, design_ids, components) ==
    IF i > Len(designs.items) THEN << >>
    ELSE DesignIssues(i, designs.items[i], design_ids, components)
         \o DesignLoop(designs, i + 1,
                       DesignIdsAfter(designs.items[i], design_ids), components)

\* Lines 473-498: one iteration of the installation loop.
InstallationIssues(iid, iobj, rids) ==
    LET path == BlueprintsFile
        iparts == << K("installations"), K(iid) >>
        inst == RequireDict(path, iparts, iobj, "installation '" \o iid \o "'")
        Map(field) ==
            IF Has(iobj, field)
            THEN ValidateResourceMap(path, iparts \o << K(field) >>,
                                     Get(iobj, field), field, rids)
            ELSE << >>
    IN  IF iid = ""
        THEN << ValidationIssue(path, JsonPointer(iparts),
                                "installation id must be a non-empty string") >>
        ELSE IF ~inst.ok THEN inst.iss
        ELSE RequireStr(path, iparts \o << K("name") >>, Get(iobj, "name"), "name").iss
             \o (IF Has(iobj, "construction_cost")
                 THEN RequireNumber(path, iparts \o << K("construction_cost") >>,
                                    Get(iobj, "construction_cost"),
                                    "construction_cost", FloatMin0).iss
                 ELSE << >>)
             \o Map("build_costs") \o Map("build_costs_per_ton")
             \o Map("produces") \o Map("consumes")

\* Line 498: the installation is kept in `installations`.
InstallationRetained(iid, iobj) == iid # "" /\ IsDict(iobj)

\* A loader that returns no component catalog either when the installations
\* section is not an object.
ValidateBlueprints_NoneOnInstallations(f, rids) ==
    IF ~HasTop(f)
    THEN [iss |-> FileIssue(BlueprintsFile, f), components |-> NoneRet,
          installations |-> NoneRet, raised |-> FALSE]
    ELSE
    LET top == f.data
        path == BlueprintsFile
        version == RequireInt(path, << K("version") >>, Get(top, "version"),
                              "version", IntMin1)
        inc == Get(top, "include")
        comps == Get(top, "components")
        ccheck == RequireDict(path, << K("components") >>, comps, "components")
        components == { comps.items[i][1] : i \in
                          { j \in 1..Len(comps.items) :
                              ComponentRetained(comps.items[j][1], comps.items[j][2]) } }
        compIss == Flatten([i \in 1..Len(comps.items) |->
                              ComponentIssues(comps.items[i][1], comps.items[i][2])])
        designs == Get(top, "designs")
        dcheck == RequireList(path, << K("designs") >>, designs, "designs")
        designIss == dcheck.iss
                     \o (IF dcheck.ok THEN DesignLoop(designs, 1, {}, components)
                         ELSE << >>)
        insts == Get(top, "installations")
        icheck == RequireDict(path, << K("installations") >>, insts, "installations")
        installations == { insts.items[i][1] : i \in
                             { j \in 1..Len(insts.items) :
                                 InstallationRetained(insts.items[j][1],
                                                      insts.items[j][2]) } }
        instIss == Flatten([i \in 1..Len(insts.items) |->
                              InstallationIssues(insts.items[i][1], insts.items[i][2],
                                                 rids)])
        head == version.iss \o IncludeIssues(inc)
    IN  IF IncludeRaisesAt(inc) # 0
        THEN [iss |-> head, components |-> NoneRet, installations |-> NoneRet,
              raised |-> TRUE]
        ELSE IF ~ccheck.ok
        THEN [iss |-> head \o ccheck.iss, components |-> NoneRet,
              installations |-> NoneRet, raised |-> FALSE]
        ELSE IF ~icheck.ok
        THEN [iss |-> head \o compIss \o designIss \o icheck.iss,
              components |-> NoneRet, installations |-> NoneRet,
              raised |-> FALSE]
        ELSE [iss |-> head \o compIss \o designIss \o instIss,
              components |-> DictRet(components),
              installations |-> DictRet(installations), raised |-> FALSE]

\* validate_blueprints: [iss, components, installations, raised].  When
\* raised, an exception left the function (and validate_all) after iss.
ValidateBlueprints(f, rids) ==
    IF ~HasTop(f)
    THEN [iss |-> FileIssue(BlueprintsFile, f), components |-> NoneRet,
          installations |-> NoneRet, raised |-> FALSE]
    ELSE
    LET top == f.data
        path == BlueprintsFile
        version == RequireInt(path, << K("version") >>, Get(top, "version"),
                              "version", IntMin1)
        inc == Get(top, "include")
        comps == Get(top, "components")
        ccheck == RequireDict(path, << K("components") >>, comps, "components")
        components == { comps.items[i][1] : i \in
                          { j \in 1..Len(comps.items) :
                              ComponentRetained(comps.items[j][1], comps.items[j][2]) } }
        compIss == Flatten([i \in 1..Len(comps.items) |->
                              ComponentIssues(comps.items[i][1], comps.items[i][2])])
        designs == Get(top, "designs")
        dcheck == RequireList(path, << K("designs") >>, designs, "designs")
        designIss == dcheck.iss
                     \o (IF dcheck.ok THEN DesignLoop(designs, 1, {}, components)
                         ELSE << >>)
        insts == Get(top, "installations")
        icheck == RequireDict(path, << K("installations") >>, insts, "installations")
        installations == { insts.items[i][1] : i \in
                             { j \in 1..Len(insts.items) :
                                 InstallationRetained(insts.items[j][1],
                                                      insts.items[j][2]) } }
        instIss == Flatten([i \in 1..Len(insts.items) |->
                              InstallationIssues(insts.items[i][1], insts.items[i][2],
                                                 rids)])
        head == version.iss \o IncludeIssues(inc)
    IN  IF IncludeRaisesAt(inc) # 0
        THEN [iss |-> head, components |-> NoneRet, installations |-> NoneRet,
              raised |-> TRUE]
        ELSE IF ~ccheck.ok
        THEN [iss |-> head \o ccheck.iss, components |-> NoneRet,
              installations |-> NoneRet, raised |-> FALSE]
        ELSE IF ~icheck.ok
        THEN [iss |-> head \o compIss \o designIss \o icheck.iss,
              components |-> DictRet(components), installations |-> NoneRet,
              raised |-> FALSE]
        ELSE [iss |-> head \o compIss \o designIss \o instIss,
              components |-> DictRet(components),
              installations |-> DictRet(installations), raised |-> FALSE]

---------------------------------------------------------------------------
(* validate_tech_tree: the schema pass and the reference pass              *)

AllowedFactionOutputBonusKeys ==
    {"all", "construction", "industry", "mining", "research", "shipyard",
     "terraforming", "troop_training"}

\* Lines 570-594: one iteration of the effect loop of a tech.
EffectIssues(tparts, j, eobj, cids, iids) ==
    LET path == TechFile
        eparts == tparts \o << K("effects"), I(j - 1) >>
        e == RequireDict(path, eparts, eobj, "effect")
        etype == RequireStr(path, eparts \o << K("type") >>, Get(eobj, "type"), "type")
        ty == Get(eobj, "type").s
        value == Get(eobj, "value")
        val == RequireStr(path, eparts \o << K("value") >>, value, "value")
    IN  IF ~e.ok THEN e.iss
        ELSE IF ~etype.ok THEN etype.iss
        ELSE IF ty \notin {"unlock_component", "unlock_installation",
                           "faction_output_bonus"}
        THEN << ValidationIssue(path, JsonPointer(eparts \o << K("type") >>),
                                "unknown effect type '" \o ty \o "'") >>
        ELSE IF ty \in {"unlock_component", "unlock_installation"}
        THEN IF ~val.ok THEN val.iss
             ELSE (IF ty = "unlock_component" /\ value.s \notin cids
                   THEN << ValidationIssue(path, JsonPointer(eparts \o << K("value") >>),
                                           "unknown component '" \o value.s \o "'") >>
                   ELSE << >>)
                  \o (IF ty = "unlock_installation" /\ value.s \notin iids
                      THEN << ValidationIssue(path,
                                 JsonPointer(eparts \o << K("value") >>),
                                 "unknown installation '" \o value.s \o "'") >>
                      ELSE << >>)
        ELSE val.iss
             \o (IF val.ok /\ value.s \notin AllowedFactionOutputBonusKeys
                 THEN << ValidationIssue(path, JsonPointer(eparts \o << K("value") >>),
                                         "unknown output bonus key '" \o value.s \o "'") >>
                 ELSE << >>)
             \o RequireNumber(path, eparts \o << K("amount") >>, Get(eobj, "amount"),
                              "amount", FloatMin0).iss

\* Lines 560-594: the checks of a tech entry once its id is registered.
TechFieldIssues(tparts, t, cids, iids) ==
    LET path == TechFile
        prereqs == Get(t, "prereqs")
        pcheck == RequireList(path, tparts \o << K("prereqs") >>, prereqs, "prereqs")
        effects == Get(t, "effects")
        echeck == RequireList(path, tparts \o << K("effects") >>, effects, "effects")
    IN  RequireStr(path, tparts \o << K("name") >>, Get(t, "name"), "name").iss
        \o RequireInt(path, tparts \o << K("cost") >>, Get(t, "cost"), "cost", IntMin0).iss
        \o pcheck.iss
        \o (IF pcheck.ok
            THEN Flatten([j \in 1..Len(prereqs.items) |->
                    RequireStr(path, tparts \o << K("prereqs"), I(j - 1) >>,
                               prereqs.items[j], "prereq").iss])
            ELSE << >>)
        \o echeck.iss
        \o (IF echeck.ok
            THEN Flatten([j \in 1..Len(effects.items) |->
                    EffectIssues(tparts, j, effects.items[j], cids, iids)])
            ELSE << >>)

\* `tid in tech_by_id`, for tech_by_id kept as a sequence of [id, idx].
InTechs(by_id, tid) == \E k \in 1..Len(by_id) : by_id[k].id = tid

\* Lines 546-594: iteration i of the loop over the techs; by_id is
\* tech_by_id (with tech_index_by_id) before the iteration.  The result is
\* [iss, by_id]: the issues appended and tech_by_id after the iteration.
\* An iteration in which the later entry of an id takes the place of the
\* earlier one in tech_by_id and tech_index_by_id.
TechIteration_LastOccurrence(i, tobj, by_id, cids, iids) ==
    LET path == TechFile
        tparts == << K("techs"), I(i - 1) >>
        t == RequireDict(path, tparts, tobj, "tech")
        tid == RequireStr(path, tparts \o << K("id") >>, Get(tobj, "id"), "id")
        id == Get(tobj, "id").s
    IN  IF ~t.ok THEN [iss |-> t.iss, by_id |-> by_id]
        ELSE IF ~tid.ok THEN [iss |-> tid.iss, by_id |-> by_id]
        ELSE IF InTechs(by_id, id)
        THEN [iss |-> << ValidationIssue(path, JsonPointer(tparts \o << K("id") >>),
                                         "duplicate tech id '" \o id \o "'") >>,
              by_id |-> [k \in 1..Len(by_id) |->
                           IF by_id[k].id = id THEN [id |-> id, idx |-> i - 1]
                           ELSE by_id[k]]]
        ELSE [iss |-> TechFieldIssues(tparts, tobj, cids, iids),
              by_id |-> Append(by_id, [id |-> id, idx |-> i - 1])]

TechIteration(i, tobj, by_id, cids, iids) ==
    LET path == TechFile
        tparts == << K("techs"), I(i - 1) >>
        t == RequireDict(path, tparts, tobj, "tech")
        tid == RequireStr(path, tparts \o << K("id") >>, Get(tobj, "id"), "id")
        id == Get(tobj, "id").s
    IN  IF ~t.ok THEN [iss |-> t.iss, by_id |-> by_id]
        ELSE IF ~tid.ok THEN [iss |-> tid.iss, by_id |-> by_id]
        ELSE IF InTechs(by_id, id)
        THEN [iss |-> << ValidationIssue(path, JsonPointer(tparts \o << K("id") >>),
                                         "duplicate tech id '" \o id \o "'") >>,
              by_id |-> by_id]
        ELSE [iss |-> TechFieldIssues(tparts, tobj, cids, iids),
              by_id |-> Append(by_id, [id |-> id, idx |-> i - 1])]

RECURSIVE TechLoop(_, _, _, _, _, _)
\* Lines 546-594: the iterations lo..hi of the loop over the techs, started
\* with tech_by_id = by_id (the iterations up to the middle one, then the
\* others on what those left).  The result is [iss, by_id].
TechLoop(techs, lo, hi, by_id, cids, iids) ==
    IF lo > hi THEN [iss |-> << >>, by_id |-> by_id]
    ELSE IF lo = hi THEN TechIteration(lo, techs.items[lo], by_id, cids, iids)
    ELSE LET mid == (lo + hi) \div 2
             first == TechLoop(techs, lo, mid, by_id, cids, iids)
             rest == TechLoop(techs, mid + 1, hi, first.by_id, cids, iids)
         IN  [iss |-> first.iss \o rest.iss, by_id |-> rest.by_id]

\* Lines 597-607: the prerequisites of one registered tech that are no tech.
PrereqIssues(techs, entry, by_id) ==
    LET prereqs == Get(techs.items[entry.idx + 1], "prereqs")
    IN  IF ~IsList(prereqs) THEN << >>
        ELSE Flatten([j \in 1..Len(prereqs.items) |->
                IF IsStr(prereqs.items[j]) /\ ~InTechs(by_id, prereqs.items[j].s)
                THEN << ValidationIssue(TechFile,
                           JsonPointer(<< K("techs"), I(entry.idx), K("prereqs"),
                                          I(j - 1) >>),
                           "unknown prereq tech '" \o prereqs.items[j].s \o "'") >>
                ELSE << >>])

\* Lines 522-607 of validate_tech_tree: everything before the cycle
\* detection.  walk says whether the function goes on to the detection.
TechTreePasses(f, cids, iids) ==
    IF ~HasTop(f)
    THEN [iss |-> FileIssue(TechFile, f), by_id |-> << >>, walk |-> FALSE]
    ELSE
    LET top == f.data
        path == TechFile
        version == RequireInt(path, << K("version") >>, Get(top, "version"),
                              "version", IntMin1)
        techs == Get(top, "techs")
        tcheck == RequireList(path, << K("techs") >>, techs, "techs")
        schema == TechLoop(techs, 1, Len(techs.items), << >>, cids, iids)
    IN  IF ~tcheck.ok
        THEN [iss |-> version.iss \o tcheck.iss, by_id |-> << >>, walk |-> FALSE]
        ELSE [iss |-> version.iss \o schema.iss
                      \o Flatten([k \in 1..Len(schema.by_id) |->
                                    PrereqIssues(techs, schema.by_id[k], schema.by_id)]),
              by_id |-> schema.by_id, walk |-> TRUE]

---------------------------------------------------------------------------
(* validate_tech_tree: the cycle detection                                 *)

\* tech_by_id.get(tid2, {}).get("prereqs", []), or << >> when the loop of
\* line 624 does not run (the value is no list).
Prereqs2(by_id, tid2) ==
    LET entry == by_id[CHOOSE k \in 1..Len(by_id) : by_id[k].id = tid2]
        t == Get(files.tech_tree.data, "techs").items[entry.idx + 1]
    IN  IF IsList(Get(t, "prereqs")) THEN Get(t, "prereqs").items ELSE << >>

\* stack.index(tid2)
StackIndex(stk, tid2) == CHOOSE k \in 1..Len(stk) :
                            stk[k] = tid2 /\ \A l \in 1..(k - 1) : stk[l] # tid2

RECURSIVE JoinArrow(_)
\* ' -> '.join(cycle)
JoinArrow(ids) ==
    IF Len(ids) = 1 THEN ids[1]
    ELSE LET h == Len(ids) \div 2
         IN  JoinArrow(SubSeq(ids, 1, h)) \o " -> "
             \o JoinArrow(SubSeq(ids, h + 1, Len(ids)))

\* A cycle taken from the bottom of the stack.
CycleOf_WholeStack(stk, tid2) == Append(stk, tid2)

\* Line 617: stack[stack.index(tid2):] + [tid2]
CycleOf(stk, tid2) == Append(SubSeq(stk, StackIndex(stk, tid2), Len(stk)), tid2)

CycleIssue(stk, tid2) ==
    ValidationIssue(TechFile, "", "tech prereq cycle detected: "
                                  \o JoinArrow(CycleOf(stk, tid2)))

---------------------------------------------------------------------------
(* validate_all, one action per loader call and per step of the walk.      *)

NoPrev == [files |-> << >>, issues |-> << >>,
           change |-> [kind |-> "none", i |-> 0, id |-> ""]]

\* No checker is called on its own.
NoCall == [fn |-> "", file |-> "", parts |-> << >>, v |-> Null, what |-> "",
           min |-> NoMin, ret |-> Null]

\* The state in which a call of validate_all starts on the files fs.
Start(fs) ==
    /\ files = fs
    /\ pc = "resources"
    /\ issues = << >>
    /\ ran = << >>
    /\ resource_ids = {}
    /\ component_ids = {}
    /\ installation_ids = {}
    /\ tech_by_id = << >>
    /\ visiting = {}
    /\ visited = {}
    /\ stack = << >>
    /\ frames = << >>
    /\ root_i = 1
    /\ call = NoCall

walkVars == << tech_by_id, visiting, visited, stack, frames, root_i >>
idVars == << resource_ids, component_ids, installation_ids >>
testVars == << files, calls, prev, call >>

\* Line 674-675.
CallValidateResources ==
    /\ pc = "resources"
    /\ LET r == ValidateResources(files.resources)
       IN  /\ issues' = issues \o r.iss
           /\ resource_ids' = IdSet(r.ret)
    /\ ran' = Append(ran, "resources")
    /\ pc' = "blueprints"
    /\ UNCHANGED << component_ids, installation_ids, walkVars, testVars >>

\* Lines 677-679.  An exception raised in the loader leaves validate_all.
CallValidateBlueprints ==
    /\ pc = "blueprints"
    /\ LET r == ValidateBlueprints(files.blueprints, resource_ids)
       IN  /\ issues' = issues \o r.iss
           /\ component_ids' = IF r.raised THEN component_ids ELSE IdSet(r.components)
           /\ installation_ids' = IF r.raised THEN installation_ids
                                  ELSE IdSet(r.installations)
           /\ pc' = IF r.raised THEN "raised" ELSE "tech_tree"
    /\ ran' = Append(ran, "blueprints")
    /\ UNCHANGED << resource_ids, walkVars, testVars >>

\* Line 681, up to the start of the cycle detection (lines 522-611).
CallValidateTechTree ==
    /\ pc = "tech_tree"
    /\ LET r == TechTreePasses(files.tech_tree, component_ids, installation_ids)
       IN  /\ issues' = issues \o r.iss
           /\ tech_by_id' = r.by_id
           /\ pc' = IF r.walk THEN "dfs" ELSE "settings"
    /\ visiting' = {}
    /\ visited' = {}
    /\ stack' = << >>
    /\ frames' = << >>
    /\ root_i' = 1
    /\ ran' = Append(ran, "tech_tree")
    /\ UNCHANGED << idVars, testVars >>

\* The deepest call stack CPython allows (sys.getrecursionlimit(), which
\* the tool leaves at its default): a call that would make the stack deeper
\* raises RecursionError.
RecursionLimit == 1000

\* The frames below validate_all when the tool runs: the module and main.
CallerFrames == 2

\* The depth of the stack in a call of dfs made with the calls frs of dfs
\* active: the callers, validate_all, validate_tech_tree, frs and the call.
DfsDepth(frs) == CallerFrames + 2 + Len(frs) + 1

\* The frames a call of dfs puts on top of its own: one for a method of a
\* set, list or dict (visiting.add, stack.index), three to build an issue
\* (the class, its __init__ and the attribute setter of the frozen dataclass).
MethodFrames == 1
IssueFrames == 3

\* RecursionError leaves dfs, validate_tech_tree and validate_all (nothing
\* catches it before main).
RaiseRecursionError(stk, frs) ==
    /\ pc' = "raised"
    /\ stack' = stk
    /\ frames' = frs
    /\ UNCHANGED << issues, visiting >>

\* A variant of dfs with one marker set: a tech already walked is taken for
\* a tech on the stack.
Dfs_OneMarker(tid2, stk, frs) ==
    IF tid2 \in visited \cup visiting
    THEN /\ issues' = Append(issues, ValidationIssue(TechFile, "",
                          "tech prereq cycle detected: " \o tid2 \o " -> " \o tid2))
         /\ stack' = stk
         /\ frames' = frs
         /\ UNCHANGED << visiting, pc >>
    ELSE /\ visiting' = visiting \cup {tid2}
         /\ stack' = Append(stk, tid2)
         /\ frames' = Append(frs, [tid |-> tid2, next |-> 1])
         /\ UNCHANGED << issues, pc >>

\* A call dfs(tid2, stk) made with the frames frs below it (lines 613-622):
\* it returns at once when tid2 is visited, reports a cycle and returns
\* when tid2 is being visited, and otherwise starts the loop of line 624;
\* the calls it makes for that raise RecursionError when the stack has no
\* room for them.
Dfs(tid2, stk, frs) ==
    IF tid2 \in visited
    THEN /\ stack' = stk
         /\ frames' = frs
         /\ UNCHANGED << issues, visiting, pc >>
    ELSE IF tid2 \in visiting
    THEN IF DfsDepth(frs) + IssueFrames > RecursionLimit
         THEN RaiseRecursionError(stk, frs)
         ELSE /\ issues' = Append(issues, CycleIssue(stk, tid2))
              /\ stack' = stk
              /\ frames' = frs
              /\ UNCHANGED << visiting, pc >>
    ELSE IF DfsDepth(frs) + MethodFrames > RecursionLimit
         THEN RaiseRecursionError(stk, frs)
         ELSE /\ visiting' = visiting \cup {tid2}
              /\ stack' = Append(stk, tid2)
              /\ frames' = Append(frs, [tid |-> tid2, next |-> 1])
              /\ UNCHANGED << issues, pc >>

\* Lines 631-633: one iteration of the loop over tech_by_id.keys().
DfsRoot ==
    /\ pc = "dfs"
    /\ frames = << >>
    /\ root_i <= Len(tech_by_id)
    /\ root_i' = root_i + 1
    /\ IF tech_by_id[root_i].id \notin visited
       THEN Dfs(tech_by_id[root_i].id, << >>, << >>)
       ELSE UNCHANGED << issues, visiting, stack, frames, pc >>
    /\ UNCHANGED << ran, visited, tech_by_id, idVars, testVars >>

\* Lines 624-626: one iteration of the loop over prereqs2 in the top call.
DfsLoop ==
    /\ pc = "dfs"
    /\ frames # << >>
    /\ LET top == frames[Len(frames)]
           prereqs2 == Prereqs2(tech_by_id, top.tid)
           pre == prereqs2[top.next]
           frs == [frames EXCEPT ![Len(frames)].next = top.next + 1]
       IN  /\ top.next <= Len(prereqs2)
           /\ IF IsStr(pre) /\ InTechs(tech_by_id, pre.s)
              THEN Dfs(pre.s, stack, frs)
              ELSE /\ frames' = frs
                   /\ UNCHANGED << issues, visiting, stack, pc >>
    /\ UNCHANGED << ran, visited, tech_by_id, root_i, idVars, testVars >>

\* A variant of the end of a call that leaves out visited.add (line 629).
DfsReturn_NotVisited ==
    /\ pc = "dfs"
    /\ frames # << >>
    /\ LET top == frames[Len(frames)]
       IN  /\ top.next > Len(Prereqs2(tech_by_id, top.tid))
           /\ stack' = SubSeq(stack, 1, Len(stack) - 1)
           /\ visiting' = visiting \ {top.tid}
           /\ visited' = visited
           /\ frames' = SubSeq(frames, 1, Len(frames) - 1)
    /\ UNCHANGED << pc, issues, ran, tech_by_id, root_i, idVars, testVars >>

\* A variant of the end of a call that leaves out visiting.remove (line 628).
DfsReturn_StillVisiting ==
    /\ pc = "dfs"
    /\ frames # << >>
    /\ LET top == frames[Len(frames)]
       IN  /\ top.next > Len(Prereqs2(tech_by_id, top.tid))
           /\ stack' = SubSeq(stack, 1, Len(stack) - 1)
           /\ visiting' = visiting
           /\ visited' = visited \cup {top.tid}
           /\ frames' = SubSeq(frames, 1, Len(frames) - 1)
    /\ UNCHANGED << pc, issues, ran, tech_by_id, root_i, idVars, testVars >>

\* Lines 627-629: the top call ends.
DfsReturn ==
    /\ pc = "dfs"
    /\ frames # << >>
    /\ LET top == frames[Len(frames)]
       IN  /\ top.next > Len(Prereqs2(tech_by_id, top.tid))
           /\ stack' = SubSeq(stack, 1, Len(stack) - 1)
           /\ visiting' = visiting \ {top.tid}
           /\ visited' = visited \cup {top.tid}
           /\ frames' = SubSeq(frames, 1, Len(frames) - 1)
    /\ UNCHANGED << pc, issues, ran, tech_by_id, root_i, idVars, testVars >>

\* validate_tech_tree returns when the root loop is over.
TechTreeReturn ==
    /\ pc = "dfs"
    /\ frames = << >>
    /\ root_i > Len(tech_by_id)
    /\ pc' = "settings"
    /\ UNCHANGED << issues, ran, walkVars, idVars, testVars >>

\* Lines 682-684: the settings loader, and validate_all returns issues.
CallValidateSettings ==
    /\ pc = "settings"
    /\ issues' = issues \o ValidateSettings(files.settings)
    /\ ran' = Append(ran, "settings")
    /\ pc' = "done"
    /\ UNCHANGED << walkVars, idVars, testVars >>

Next ==
    \/ CallValidateResources
    \/ CallValidateBlueprints
    \/ CallValidateTechTree
    \/ DfsRoot
    \/ DfsLoop
    \/ DfsReturn
    \/ TechTreeReturn
    \/ CallValidateSettings

---------------------------------------------------------------------------
(* Content: a baseline that validates, and the documents derived from it.  *)

\* d with key k set to v: d[k] = v (a new key goes last).
With(d, k, v) ==
    IF Has(d, k)
    THEN JDict([i \in 1..Len(d.items) |->
                  IF d.items[i][1] = k THEN << k, v >> ELSE d.items[i]])
    ELSE JDict(Append(d.items, << k, v >>))

\* d without key k: del d[k].
Without(d, k) ==
    JDict(SelectSeq(d.items, LAMBDA kv : kv[1] # k))

Resource(name) ==
    JDict(<< <<"name", JStr(name)>>, <<"category", JStr("metal")>>,
             <<"mineable", JBool(TRUE)>>,
             <<"salvage_research_rp_per_ton", JFloat(500)>> >>)

ResourcesDoc ==
    JDict(<< <<"version", JInt(1)>>,
             <<"resources", JDict(<< <<"iron", Resource("Iron")>>,
                                     <<"fuel", Resource("Fuel")>> >>)>> >>)

Engine ==
    JDict(<< <<"name", JStr("Engine")>>, <<"type", JStr("engine")>>,
             <<"mass_tons", JInt(50)>>, <<"speed_km_s", JFloat(1)>>,
             <<"fuel_use_per_mkm", JInt(0)>> >>)

Laser ==
    JDict(<< <<"name", JStr("Laser")>>, <<"type", JStr("weapon")>>,
             <<"damage", JInt(2)>>, <<"weapon_range_mkm", JFloat(0)>> >>)

Design(id, role, comps) ==
    JDict(<< <<"id", JStr(id)>>, <<"name", JStr("Ship")>>, <<"role", role>>,
             <<"components", JList(comps)>> >>)

Mine ==
    JDict(<< <<"name", JStr("Mine")>>, <<"construction_cost", JInt(100)>>,
             <<"build_costs", JDict(<< <<"iron", JInt(10)>> >>)>>,
             <<"produces", JDict(<< <<"iron", JFloat(1500)>>,
                                    <<"fuel", JInt(0)>> >>)>> >>)

BlueprintsDoc ==
    JDict(<< <<"version", JInt(1)>>,
             <<"components", JDict(<< <<"eng", Engine>>, <<"gun", Laser>> >>)>>,
             <<"designs", JList(<< Design("scout", JStr("surveyor"), << JStr("eng") >>),
                                   Design("frigate", JStr("combatant"),
                                          << JStr("eng"), JStr("gun") >>) >>)>>,
             <<"installations", JDict(<< <<"mine", Mine>> >>)>> >>)

Effect(type, value) == JDict(<< <<"type", JStr(type)>>, <<"value", JStr(value)>> >>)

Tech(id, prereqs, effects) ==
    JDict(<< <<"id", JStr(id)>>, <<"name", JStr("Tech")>>, <<"cost", JInt(100)>>,
             <<"prereqs", JList(prereqs)>>, <<"effects", JList(effects)>> >>)

TechDoc(techs) == JDict(<< <<"version", JInt(1)>>, <<"techs", JList(techs)>> >>)

TechTreeDoc ==
    TechDoc(<< Tech("A", << >>, << Effect("unlock_component", "eng") >>),
               Tech("B", << JStr("A") >>,
                    << Effect("unlock_installation", "mine"),
                       JDict(<< <<"type", JStr("faction_output_bonus")>>,
                                <<"value", JStr("mining")>>,
                                <<"amount", JFloat(100)>> >>) >>) >>)

SettingsDoc ==
    JDict(<< <<"startingScenario", JStr("sol")>>,
             <<"sim", JDict(<< <<"startDate", JStr("2200-01-01")>>,
                               <<"secondsPerDay", JInt(86400)>> >>)>> >>)

Baseline ==
    [resources |-> Doc(ResourcesDoc), blueprints |-> Doc(BlueprintsDoc),
     tech_tree |-> Doc(TechTreeDoc), settings |-> Doc(SettingsDoc)]

---------------------------------------------------------------------------
(* The runs of validate_all over faulty files: each file is missing,       *)
(* unparsable, valid, or holds one of a few faulty documents.              *)

ResourceFiles ==
    { Missing, Unparsable, Doc(ResourcesDoc), Doc(JList(<< >>)),
      Doc(Without(ResourcesDoc, "resources")),
      Doc(JDict(<< <<"version", JInt(0)>>,
                   <<"resources", JDict(<< <<"iron", JInt(5)>>,
                                           <<"", Resource("Void")>>,
                                           <<"a/b", Without(Resource("Slash"),
                                                            "mineable")>> >>)>> >>)) }

\* An unknown role, an unknown component in a design and an unknown
\* resource in a map.
UnresolvedBlueprintsDoc ==
    With(With(BlueprintsDoc, "designs",
              JList(<< Design("scout", JStr("pirate"),
                              << JStr("eng"), JStr("warp") >>) >>)),
         "installations",
         JDict(<< <<"mine", With(Mine, "consumes",
                                 JDict(<< <<"water", JInt(-1)>> >>))>> >>))

BlueprintFiles ==
    { Missing, Unparsable, Doc(BlueprintsDoc),
      Doc(UnresolvedBlueprintsDoc),
      \* the components section is no object
      Doc(With(BlueprintsDoc, "components", JList(<< >>))),
      \* the installations section is missing
      Doc(Without(BlueprintsDoc, "installations")),
      \* includes: one found, one not found, one malformed
      Doc(With(BlueprintsDoc, "include",
               JList(<< JStr("extra.json"), JStr("nope.json"), JInt(3) >>))),
      \* an include whose path lookup raises
      Doc(With(BlueprintsDoc, "include", JList(<< JStr("nope.json"), JStr("a\\0b") >>))) }

TechFiles ==
    { Missing, Unparsable, Doc(TechTreeDoc),
      Doc(With(TechTreeDoc, "techs", Null)),
      \* a cycle, a duplicate id and an unknown prerequisite
      Doc(TechDoc(<< Tech("A", << JStr("B") >>, << >>),
                     Tech("B", << JStr("A"), JStr("Z") >>,
                          << Effect("unlock_component", "warp") >>),
                     Tech("A", << JStr("Y") >>, << >>) >>)) }

SettingsFiles ==
    { Missing, Unparsable, Doc(SettingsDoc), Doc(JDict(<< >>)),
      Doc(JDict(<< <<"startingScenario", JStr("")>>,
                   <<"sim", JDict(<< <<"startDate", JStr("soon")>>,
                                     <<"secondsPerDay", JInt(0)>> >>)>> >>)) }

FaultyFiles ==
    [resources : ResourceFiles, blueprints : BlueprintFiles,
     tech_tree : TechFiles, settings : SettingsFiles]

Init ==
    /\ \E fs \in FaultyFiles : Start(fs)
    /\ calls = 1
    /\ prev = NoPrev

Spec == Init /\ [][Next]_vars

---------------------------------------------------------------------------
(* Runs over documents that use identifiers as references.                 *)

MaxRefs == 2
MaxEntries == 2

RECURSIVE SeqsOfLen(_, _)
\* The sequences over S of length n.
SeqsOfLen(S, n) ==
    IF n = 0 THEN { << >> }
    ELSE { Append(s, x) : s \in SeqsOfLen(S, n - 1), x \in S }

\* The sequences over S of length at most n.
SeqsUpTo(S, n) == UNION { SeqsOfLen(S, k) : k \in 0..n }

Nameless == Without(Engine, "name")

RefComponentSections ==
    { JDict(<< <<"eng", Engine>>, <<"gun", Laser>>, <<"nameless", Nameless>> >>),
      JList(<< >>) }

RefComponentLists ==
    SeqsUpTo({JStr("eng"), JStr("nameless"), JStr("warp"), JInt(3)}, MaxRefs)

\* Resource maps with distinct keys.
RefMaps ==
    { m \in SeqsUpTo({"iron", "water", ""} \X {JInt(1), JInt(-1)}, MaxEntries) :
        \A i, j \in 1..Len(m) : i # j => m[i][1] # m[j][1] }

RefBlueprints ==
    { With(With(BlueprintsDoc, "components", cs),
           "designs", JList(<< Design("scout", JStr("surveyor"), cl) >>)) :
        cs \in RefComponentSections, cl \in RefComponentLists }
    \cup
    { With(With(BlueprintsDoc, "components", cs),
           "installations", JDict(<< <<"mine", With(Mine, "produces", JDict(m))>> >>)) :
        cs \in RefComponentSections, m \in RefMaps }

RefPrereqLists == SeqsUpTo({JStr("A"), JStr("B"), JStr("Z")}, 1)

RefEffectLists ==
    { << >>, << Effect("unlock_component", "eng") >>,
      << Effect("unlock_component", "warp") >>,
      << Effect("unlock_installation", "mine") >>,
      << Effect("unlock_installation", "dock") >> }

RefTechDocs ==
    { TechDoc(<< Tech("A", p1, e1), With(Tech("B", p2, e2), "id", id2) >>) :
        p1 \in RefPrereqLists, e1 \in RefEffectLists,
        p2 \in RefPrereqLists, e2 \in RefEffectLists,
        id2 \in {JStr("A"), JStr("B"), JInt(7)} }

RefFiles ==
    { [Baseline EXCEPT !.resources = r, !.blueprints = Doc(b)] :
        r \in {Doc(ResourcesDoc), Missing}, b \in RefBlueprints }
    \cup
    { [Baseline EXCEPT !.blueprints = b, !.tech_tree = Doc(t)] :
        b \in {Doc(BlueprintsDoc), Missing, Doc(UnresolvedBlueprintsDoc),
               Doc(With(BlueprintsDoc, "components", Null)),
               Doc(Without(BlueprintsDoc, "installations"))},
        t \in RefTechDocs }

InitRefs ==
    /\ \E fs \in RefFiles : Start(fs)
    /\ calls = 1
    /\ prev = NoPrev

SpecRefs == InitRefs /\ [][Next]_vars

---------------------------------------------------------------------------
(* Runs over tech lists: every list of at most MaxTechs entries whose      *)
(* prerequisite lists hold at most MaxPrereqs ids, the ids being named in  *)
(* order of first appearance (the validator only compares ids for          *)
(* equality), with the three-cycle and the diamond in every document       *)
(* order, and a few lists with malformed entries.                          *)

MaxTechs == 2
MaxPrereqs == 1

TechNames == {"A", "B", "C"}
Rank(id) == CASE id = "A" -> 1 [] id = "B" -> 2 [] id = "C" -> 3 [] OTHER -> 4

\* The ids of the entries of a tech list.
IdsOf(ts) == [i \in 1..Len(ts) |-> Get(ts[i], "id").s]

\* ids names its ids in order of first appearance.
FirstAppearanceOrder(ids) ==
    \A i \in 1..Len(ids) :
        \A r \in 1..(Rank(ids[i]) - 1) : \E j \in 1..(i - 1) : Rank(ids[j]) = r

TechPrereqLists == SeqsUpTo({ JStr(id) : id \in TechNames }, MaxPrereqs)

RECURSIVE TechListsOfLen(_)
TechListsOfLen(n) ==
    IF n = 0 THEN { << >> }
    ELSE { ts \in { Append(l, Tech(id, ps, << >>)) :
                      l \in TechListsOfLen(n - 1), id \in TechNames,
                      ps \in TechPrereqLists } :
             FirstAppearanceOrder(IdsOf(ts)) }

TechLists == UNION { TechListsOfLen(n) : n \in 0..MaxTechs }

RECURSIVE Orderings(_)
\* The orderings of the members of a set.
Orderings(S) ==
    IF S = {} THEN { << >> }
    ELSE UNION { { << x >> \o s : s \in Orderings(S \ {x}) } : x \in S }

\* A requires B, B requires C, C requires A.
ThreeCycleLists ==
    Orderings({ Tech("A", << JStr("B") >>, << >>), Tech("B", << JStr("C") >>, << >>),
                Tech("C", << JStr("A") >>, << >>) })

\* D requires B and C, which both require A.
DiamondLists ==
    UNION { Orderings({ Tech("A", << >>, << >>), Tech("B", << JStr("A") >>, << >>),
                        Tech("C", << JStr("A") >>, << >>), Tech("D", d, << >>) }) :
            d \in { << JStr("B"), JStr("C") >>, << JStr("C"), JStr("B") >> } }

\* Entries that are no object or have no id, prerequisites that are no
\* array or hold a value that is no string.
MalformedTechLists ==
    { << JInt(1), Tech("A", << JStr("A") >>, << >>) >>,
      << Without(Tech("A", << JStr("B") >>, << >>), "id"),
         Tech("B", << JInt(5), JStr(""), JStr("B") >>, << >>) >>,
      << With(Tech("A", << >>, << >>), "prereqs", JStr("A")),
         Without(Tech("B", << >>, << >>), "prereqs"),
         Tech("C", << JStr("A"), JStr("B"), JStr("C") >>, << >>) >> }

\* Prerequisite arrays that name an id more than once, on and off a cycle.
RepeatedPrereqLists ==
    { << Tech("A", << JStr("A"), JStr("A") >>, << >>) >>,
      << Tech("A", << JStr("B"), JStr("B") >>, << >>), Tech("B", << JStr("A") >>, << >>) >>,
      << Tech("A", << JStr("B") >>, << >>),
         Tech("B", << JStr("A"), JStr("C"), JStr("A") >>, << >>),
         Tech("C", << >>, << >>) >>,
      << Tech("A", << JStr("B"), JStr("B") >>, << >>), Tech("B", << >>, << >>) >>,
      << Tech("A", << JStr("B"), JStr("C") >>, << >>),
         Tech("B", << JStr("A"), JStr("C") >>, << >>),
         Tech("C", << JStr("A"), JStr("B") >>, << >>) >> }

TechTreeFiles ==
    { [Baseline EXCEPT !.tech_tree = Doc(TechDoc(ts))] :
        ts \in TechLists \cup ThreeCycleLists \cup DiamondLists \cup MalformedTechLists
                \cup RepeatedPrereqLists }

InitTech ==
    /\ \E fs \in TechTreeFiles : Start(fs)
    /\ calls = 1
    /\ prev = NoPrev

SpecTech == InitTech /\ [][Next]_vars

---------------------------------------------------------------------------
(* Runs over long prerequisite chains: t0 requires t1, t1 requires t2 and  *)
(* so on, the last tech requiring nothing, or t0 again (a ring); the       *)
(* lengths are those at which the walk reaches the deepest stack allowed.  *)

\* The number of nested calls of dfs whose last one runs at the deepest
\* stack allowed.
DeepestDfs == RecursionLimit - CallerFrames - 2

TechName(i) == "t" \o IntStr(i)

\* n techs, tech i requiring tech i + 1 and the last one requiring `last`.
Chain(n, last) ==
    [i \in 1..n |-> Tech(TechName(i - 1),
                          IF i < n THEN << JStr(TechName(i)) >> ELSE last, << >>)]

DeepTechLists ==
    { Chain(DeepestDfs - 1, << >>), Chain(DeepestDfs, << >>),
      Chain(DeepestDfs - 1 - IssueFrames, << JStr("t0") >>),
      Chain(DeepestDfs - IssueFrames, << JStr("t0") >>) }

DeepFiles ==
    { [Baseline EXCEPT !.tech_tree = Doc(TechDoc(ts))] : ts \in DeepTechLists }

InitDeep ==
    /\ \E fs \in DeepFiles : Start(fs)
    /\ calls = 1
    /\ prev = NoPrev

SpecDeep == InitDeep /\ [][Next]_vars

---------------------------------------------------------------------------
(* The tests: a second call of validate_all on the same files, and the     *)
(* calls of test_validate_content.py, which rewrite the blueprint document *)
(* of content that has been validated and call validate_all on it.         *)

NoChange == [kind |-> "none", i |-> 0, id |-> ""]

\* A variant of the start of a call in which the issue list outlives the
\* previous call.
Restart_KeepingIssues(fs) ==
    /\ files' = fs
    /\ pc' = "resources"
    /\ issues' = issues
    /\ ran' = << >>
    /\ resource_ids' = {}
    /\ component_ids' = {}
    /\ installation_ids' = {}
    /\ tech_by_id' = << >>
    /\ visiting' = {}
    /\ visited' = {}
    /\ stack' = << >>
    /\ frames' = << >>
    /\ root_i' = 1
    /\ call' = call

\* The next state is the start of a call of validate_all on the files fs:
\* every local of the call is new (line 672, lines 543-544 and 610-611).
Restart(fs) ==
    /\ files' = fs
    /\ pc' = "resources"
    /\ issues' = << >>
    /\ ran' = << >>
    /\ resource_ids' = {}
    /\ component_ids' = {}
    /\ installation_ids' = {}
    /\ tech_by_id' = << >>
    /\ visiting' = {}
    /\ visited' = {}
    /\ stack' = << >>
    /\ frames' = << >>
    /\ root_i' = 1
    /\ call' = call

\* The keys of the blueprint documents in the order of Python's sorted().
KeyOrder ==
    << "air", "build_costs", "components", "construction_cost", "consumes",
       "damage", "designs", "dock", "eng", "fuel", "fuel_use_per_mkm",
       "gun", "helium", "id", "include", "installations", "iron",
       "mass_tons", "mine", "name", "produces", "role", "speed_km_s",
       "type", "version", "water", "weapon_range_mkm", "yard", "zinc" >>

KeyRank(k) == CHOOSE i \in 1..Len(KeyOrder) : KeyOrder[i] = k

RECURSIVE SortedItems(_)
\* The items of an object, by key.
SortedItems(items) ==
    IF items = << >> THEN << >>
    ELSE LET m == CHOOSE i \in 1..Len(items) :
                    \A j \in 1..Len(items) : KeyRank(items[i][1]) <= KeyRank(items[j][1])
         IN  << items[m] >>
             \o SortedItems(SubSeq(items, 1, m - 1) \o SubSeq(items, m + 1, Len(items)))

RECURSIVE SortKeys(_)
RECURSIVE SortEach(_)
RECURSIVE SortValues(_)
\* json.loads(json.dumps(v, sort_keys=True)): the keys of every object of v
\* in sorted order.
SortKeys(v) ==
    IF IsDict(v) THEN JDict(SortedItems(SortValues(v.items)))
    ELSE IF IsList(v) THEN JList(SortEach(v.items))
    ELSE v
SortEach(vs) ==
    IF vs = << >> THEN << >> ELSE << SortKeys(Head(vs)) >> \o SortEach(Tail(vs))
SortValues(items) ==
    IF items = << >> THEN << >>
    ELSE << << Head(items)[1], SortKeys(Head(items)[2]) >> >> \o SortValues(Tail(items))

\* bp["designs"][i], as the tests reach it (lines 41-43, 46): the document
\* is an object and its designs a non-empty array.
HasDesign(f, i) ==
    /\ HasTop(f)
    /\ IsList(Get(f.data, "designs"))
    /\ i \in 1..Len(Get(f.data, "designs").items)
    /\ IsDict(Get(f.data, "designs").items[i])

\* The blueprint document with design i replaced by d.
WithDesign(bp, i, d) ==
    With(bp, "designs",
         JList([Get(bp, "designs").items EXCEPT ![i] = d]))

InjectIds == {"definitely_missing_component", "warp", "mine", "eng"}
InjectRoles == {"not_a_real_role", "Combatant", "", "freighter", "unknown"}

\* validate_all is called again on the files of a call that returned.
Rerun ==
    /\ pc = "done"
    /\ calls = 1
    /\ prev' = [files |-> files, issues |-> issues, change |-> NoChange]
    /\ calls' = 2
    /\ Restart(files)

\* test_catches_missing_component_reference, for design i and the id `id`:
\* content that validates with no issue gets the id appended to the
\* component list of the design, is written back with sorted keys and is
\* validated.
InjectComponent ==
    /\ pc = "done"
    /\ calls = 1
    /\ issues = << >>
    /\ \E i \in 1..2, id \in InjectIds :
          /\ HasDesign(files.blueprints, i)
          /\ LET bp == files.blueprints.data
                 d == Get(bp, "designs").items[i]
                 comps == Get(d, "components")
             IN  /\ IsList(comps)
                 /\ Restart([files EXCEPT !.blueprints =
                        Doc(SortKeys(WithDesign(bp, i,
                            With(d, "components",
                                 JList(Append(comps.items, JStr(id)))))))])
          /\ prev' = [files |-> files, issues |-> issues,
                      change |-> [kind |-> "component", i |-> i, id |-> id]]
    /\ calls' = 2

\* test_catches_invalid_ship_role, for design i and the role `id`: the role
\* of the design is set, the document written back with sorted keys and
\* validated.
InjectRole ==
    /\ pc = "done"
    /\ calls = 1
    /\ \E i \in 1..2, id \in InjectRoles :
          /\ HasDesign(files.blueprints, i)
          /\ LET bp == files.blueprints.data
                 d == Get(bp, "designs").items[i]
             IN  Restart([files EXCEPT !.blueprints =
                    Doc(SortKeys(WithDesign(bp, i, With(d, "role", JStr(id)))))])
          /\ prev' = [files |-> files, issues |-> issues,
                      change |-> [kind |-> "role", i |-> i, id |-> id]]
    /\ calls' = 2

NextT ==
    \/ Next
    \/ Rerun
    \/ InjectComponent
    \/ InjectRole

\* Blueprint documents that validate, with their keys, designs and
\* installations in several orders.
ValidBlueprints ==
    { BlueprintsDoc,
      JDict(<< <<"installations", Get(BlueprintsDoc, "installations")>>,
               <<"designs", JList(<< Design("hull", JStr("unknown"), << >>),
                                     Design("scout", JStr("freighter"),
                                            << JStr("gun"), JStr("gun") >>) >>)>>,
               <<"version", JInt(2)>>,
               <<"components", JDict(<< <<"gun", Laser>>, <<"eng", Engine>> >>)>> >>),
      Without(With(BlueprintsDoc, "designs",
                   JList(<< Design("scout", JStr("combatant"), << JStr("eng") >>) >>)),
              "version") }

\* A document set with several unresolved references in each section, the
\* keys and ids out of alphabetical order.
UnorderedBlueprintsDoc ==
    JDict(<< <<"version", JInt(1)>>,
             <<"installations",
               JDict(<< <<"yard", With(Mine, "consumes",
                                       JDict(<< <<"water", JInt(1)>>,
                                                <<"air", JInt(-1)>> >>))>>,
                        <<"dock", With(Mine, "produces",
                                       JDict(<< <<"zinc", JInt(1)>>,
                                                <<"iron", JInt(1)>>,
                                                <<"helium", JInt(1)>> >>))>> >>)>>,
             <<"designs",
               JList(<< Design("b", JStr("surveyor"),
                               << JStr("warp"), JStr("eng"), JStr("hyper") >>),
                        Design("a", JStr("pirate"), << JStr("cloak") >>) >>)>>,
             <<"components", JDict(<< <<"gun", Laser>>, <<"eng", Engine>> >>)>> >>)

UnorderedTechDoc ==
    TechDoc(<< Tech("B", << JStr("Z"), JStr("A"), JStr("Y") >>,
                    << Effect("unlock_component", "warp"),
                       Effect("unlock_installation", "pier"),
                       Effect("unlock_component", "cloak") >>),
               Tech("A", << JStr("Q") >>,
                    << Effect("unlock_installation", "yard"),
                       Effect("unlock_installation", "bay") >>) >>)

TestFiles ==
    FaultyFiles
    \cup { [Baseline EXCEPT !.blueprints = Doc(b)] : b \in ValidBlueprints }
    \cup { [Baseline EXCEPT !.blueprints = Doc(UnorderedBlueprintsDoc),
                            !.tech_tree = t, !.resources = r] :
             t \in {Doc(UnorderedTechDoc), Doc(TechTreeDoc)},
             r \in {Doc(ResourcesDoc), Missing} }

InitTests ==
    /\ \E fs \in TestFiles : Start(fs)
    /\ calls = 1
    /\ prev = NoPrev

SpecTests == InitTests /\ [][NextT]_vars

---------------------------------------------------------------------------
(* Runs over blueprint documents: a weapon with every combination of its   *)
(* fields absent, valid and invalid, and an installation with resource     *)
(* maps of at most MaxEntries entries.                                     *)

\* A field left out of a record.
Absent == [t |-> "absent"]

\* The object with the fields that are not Absent.
Record(fields) == JDict(SelectSeq(fields, LAMBDA kv : kv[2] # Absent))

Weapons ==
    { Record(<< <<"name", JStr("Gun")>>, <<"type", JStr("weapon")>>,
                <<"damage", d>>, <<"weapon_range_mkm", r>>,
                <<"missile_damage", md>>, <<"missile_range_mkm", mr>>,
                <<"missile_speed_mkm_per_day", ms>>,
                <<"missile_reload_days", ml>>, <<"missile_ammo", ma>>,
                <<"point_defense_damage", pd>>,
                <<"point_defense_range_mkm", pr>> >>) :
        d \in {Absent, JFloat(1500), JInt(-1), Null},
        r \in {Absent, JInt(0), JStr("far")},
        md \in {Absent, JInt(3), JBool(TRUE)},
        mr \in {Absent, JFloat(0), JFloat(-1)},
        ms \in {Absent, JInt(1)},
        ml \in {Absent, JInt(0), JFloat(2000)},
        ma \in {Absent, JInt(5)},
        pd \in {Absent, JInt(2), JInt(-2)},
        pr \in {Absent, JFloat(250)} }

WeaponFiles ==
    { [Baseline EXCEPT
         !.blueprints = Doc(With(BlueprintsDoc, "components",
                                 JDict(<< <<"eng", Engine>>, <<"gun", w>> >>))),
         !.tech_tree = Doc(TechDoc(<< Tech("A", << >>, << >>) >>))] :
        w \in Weapons }

\* Resource maps with distinct keys.
Maps ==
    { m \in SeqsUpTo({"iron", "water", ""}
                     \X {JInt(1), JFloat(-500), JStr("1"), JBool(TRUE)}, MaxEntries) :
        \A i, j \in 1..Len(m) : i # j => m[i][1] # m[j][1] }

MapFiles ==
    { [Baseline EXCEPT
         !.resources = r,
         !.blueprints = Doc(With(With(BlueprintsDoc, "components", cs),
                                 "installations",
                                 JDict(<< <<"mine", With(Mine, f, JDict(m))>> >>)))] :
        r \in {Doc(ResourcesDoc), Missing},
        cs \in {Get(BlueprintsDoc, "components"), JList(<< >>)},
        f \in {"build_costs", "build_costs_per_ton", "produces", "consumes"},
        m \in Maps }

InitBlueprints ==
    /\ \E fs \in WeaponFiles \cup MapFiles : Start(fs)
    /\ calls = 1
    /\ prev = NoPrev

SpecBlueprints == InitBlueprints /\ [][Next]_vars

---------------------------------------------------------------------------
(* Runs over content that is valid or a fault away from it: a component of *)
(* each type with its fields at the lower bound, above it, below it, of    *)
(* another type and absent, and documents with a section or a field        *)
(* changed, in combination.                                                *)

Component(type, fields) ==
    Record(<< <<"name", JStr("Part")>>, <<"type", type>> >> \o fields)

\* The types with one required number, and that field.
OneFieldTypes ==
    { <<"cargo", "cargo_tons">>, <<"mining", "mining_tons_per_day">>,
      <<"fuel_tank", "fuel_capacity_tons">>,
      <<"colony_module", "colony_capacity_millions">>, <<"reactor", "power">> }

TypedComponents ==
    { Component(JStr("engine"), << <<"mass_tons", m>>, <<"speed_km_s", a>>,
                                   <<"fuel_use_per_mkm", b>> >>) :
        m \in {Absent, JInt(0), JFloat(-1), Null},
        a \in {JFloat(1), JInt(2), JFloat(0), Absent},
        b \in {JInt(0), JFloat(0), JInt(-1), Absent} }
    \cup
    { Component(JStr(tf[1]), << <<tf[2], a>> >>) :
        tf \in OneFieldTypes,
        a \in {JFloat(1), JInt(1), JInt(0), JFloat(0), Absent, JBool(TRUE), JStr("1")} }
    \cup
    { Component(JStr("troop_bay"), << <<"troop_capacity", a>> >>) :
        a \in {JInt(1), JInt(7), JInt(0), JFloat(1000), Absent, JBool(TRUE)} }
    \cup
    { Component(JStr("sensor"), << <<"range_mkm", a>>, <<"ecm_strength", b>>,
                                   <<"eccm_strength", c>> >>) :
        a \in {Absent, JFloat(1), JInt(0)},
        b \in {Absent, JInt(0), JFloat(-1)},
        c \in {Absent, JFloat(0), JBool(FALSE)} }
    \cup
    { Component(JStr("armor"), << <<"hp_bonus", a>>, <<"signature_multiplier", b>> >>) :
        a \in {Absent, JInt(0), JInt(-1)}, b \in {Absent, JFloat(0), JStr("low")} }
    \cup
    { Component(JStr("shield"), << <<"shield_hp", a>>, <<"shield_regen_per_day", b>> >>) :
        a \in {JFloat(1), JFloat(0), Absent}, b \in {JInt(0), JInt(-1), Absent} }
    \cup
    { Component(JStr("weapon"), << <<"damage", a>>, <<"weapon_range_mkm", b>>,
                                   <<"missile_ammo", c>>,
                                   <<"point_defense_damage", d>>,
                                   <<"point_defense_range_mkm", d>> >>) :
        a \in {Absent, JInt(0)}, b \in {Absent, JFloat(0), JInt(-1)},
        c \in {Absent, JInt(0)}, d \in {Absent, JFloat(250)} }
    \cup
    { Component(ty, << >>) : ty \in {JStr("laser"), JStr("Engine"), JStr(""), Absent, JInt(1)} }
    \cup
    { Without(Engine, "name"), With(Engine, "name", JStr("")), JList(<< >>), Null }

\* The baseline with one more component, "part", in the first design.
WithPart(c) ==
    With(With(BlueprintsDoc, "components",
              JDict(<< <<"eng", Engine>>, <<"part", c>>, <<"gun", Laser>> >>)),
         "designs",
         JList(<< Design("scout", JStr("surveyor"), << JStr("part"), JStr("eng") >>),
                  Design("frigate", JStr("combatant"), << JStr("eng"), JStr("gun") >>) >>))

\* Blueprint documents with a section, a design or an installation changed.
NearValidBlueprints ==
    { BlueprintsDoc,
      Without(BlueprintsDoc, "version"), With(BlueprintsDoc, "version", JInt(0)),
      With(BlueprintsDoc, "version", JFloat(1000)),
      With(BlueprintsDoc, "include", JList(<< >>)),
      With(BlueprintsDoc, "include", JList(<< JStr("extra.json") >>)),
      With(BlueprintsDoc, "include", JList(<< JStr("nope.json") >>)),
      With(BlueprintsDoc, "include", Null),
      With(BlueprintsDoc, "components", JDict(<< >>)),
      With(With(With(BlueprintsDoc, "components", JDict(<< >>)),
                "designs", JList(<< >>)), "installations", JDict(<< >>)),
      With(BlueprintsDoc, "designs", JList(<< >>)),
      Without(BlueprintsDoc, "designs"),
      With(BlueprintsDoc, "installations", JDict(<< >>)),
      With(BlueprintsDoc, "components", JDict(<< <<"gun", Laser>>, <<"", Engine>>,
                                                 <<"eng", Engine>> >>)) }
    \cup
    { With(BlueprintsDoc, "designs", JList(<< d, Design("scout", JStr("unknown"), << >>) >>)) :
        d \in { Design("scout", JStr("freighter"), << JStr("gun") >>),
                Design("hull", JStr("freighter"), << JStr("gun"), JStr("gun") >>),
                Design("hull", JStr("Freighter"), << >>),
                Design("hull", Null, << >>),
                Without(Design("hull", JStr("unknown"), << >>), "components"),
                Without(Design("hull", JStr("unknown"), << >>), "name"),
                Without(Design("hull", JStr("unknown"), << >>), "id"),
                Design("hull", JStr("unknown"), << JStr("mine") >>),
                Design("hull", JStr("unknown"), << JStr("") >>) } }
    \cup
    { With(BlueprintsDoc, "installations", JDict(<< <<"mine", Mine>>, <<k, i>> >>)) :
        k \in {"dock", ""},
        i \in { Record(<< <<"name", JStr("Dock")>> >>),
                Record(<< <<"name", JStr("Dock")>>, <<"construction_cost", JInt(0)>>,
                          <<"consumes", JDict(<< >>)>>,
                          <<"build_costs_per_ton", JDict(<< <<"fuel", JFloat(0)>> >>)>> >>),
                Record(<< <<"name", JStr("Dock")>>, <<"construction_cost", JFloat(-1)>> >>),
                Record(<< <<"name", JStr("Dock")>>, <<"construction_cost", Null>> >>),
                Record(<< <<"name", JStr("Dock")>>, <<"consumes", Null>> >>),
                Record(<< <<"name", JStr("Dock")>>,
                          <<"produces", JDict(<< <<"ore", JInt(1)>> >>)>> >>),
                Record(<< <<"construction_cost", JInt(5)>> >>) } }

NearValidResources ==
    { Doc(ResourcesDoc),
      Doc(JDict(<< <<"version", JInt(3)>>,
                   <<"resources",
                     JDict(<< <<"fuel", With(Resource("Fuel"), "mineable", JBool(FALSE))>>,
                              <<"iron", With(Resource("Iron"),
                                             "salvage_research_rp_per_ton", JInt(0))>>,
                              <<"a/b", Resource("Slash")>> >>)>> >>)),
      Doc(With(ResourcesDoc, "resources",
               JDict(<< <<"iron", With(Resource("Iron"), "salvage_research_rp_per_ton",
                                       JFloat(-1))>>,
                        <<"fuel", Resource("Fuel")>> >>))),
      Doc(With(ResourcesDoc, "resources", JDict(<< <<"iron", Resource("Iron")>> >>))),
      Doc(With(ResourcesDoc, "resources", JDict(<< >>))) }

Bonus(value, amount) ==
    Record(<< <<"type", JStr("faction_output_bonus")>>, <<"value", value>>,
              <<"amount", amount>> >>)

NearValidTechs ==
    { Doc(TechTreeDoc), Doc(TechDoc(<< >>)),
      Doc(With(TechTreeDoc, "version", JInt(0))),
      Doc(TechDoc(<< Tech("B", << JStr("A"), JStr("A") >>, << >>),
                     Tech("C", << JStr("B"), JStr("A") >>,
                          << Effect("unlock_component", "gun"),
                             Effect("unlock_component", "gun") >>),
                     With(Tech("A", << >>, << Bonus(JStr("all"), JInt(0)),
                                              Bonus(JStr("research"), JFloat(0)) >>),
                          "cost", JInt(0)) >>)),
      Doc(TechDoc(<< Tech("A", << JStr("A") >>, << >>) >>)),
      Doc(TechDoc(<< Tech("A", << >>, << >>), Tech("A", << >>, << >>) >>)),
      Doc(TechDoc(<< Tech("A", << JStr("B") >>, << >>) >>)),
      Doc(TechDoc(<< With(Tech("A", << >>, << >>), "cost", JInt(-1)) >>)),
      Doc(TechDoc(<< With(Tech("A", << >>, << >>), "cost", JFloat(1000)) >>)),
      Doc(TechDoc(<< Tech("A", << >>, << Bonus(JStr("mining"), JFloat(-1)) >>) >>)),
      Doc(TechDoc(<< Tech("A", << >>, << Bonus(JStr("science"), JInt(1)) >>) >>)),
      Doc(TechDoc(<< Tech("A", << >>, << Bonus(JStr("all"), Absent) >>) >>)),
      Doc(TechDoc(<< Tech("A", << >>, << Effect("unlock_installation", "mine") >>) >>)),
      Doc(TechDoc(<< Tech("A", << >>, << Effect("unlock_component", "part") >>) >>)),
      Doc(TechDoc(<< Tech("A", << >>, << Effect("unlock_ship", "scout") >>) >>)) }

NearValidSettings ==
    { Doc(SettingsDoc), Doc(JDict(<< >>)),
      Doc(JDict(<< <<"sim", JDict(<< >>)>> >>)),
      Doc(JDict(<< <<"sim", Null>>, <<"other", JInt(1)>> >>)),
      Doc(JDict(<< <<"sim", JDict(<< <<"secondsPerDay", JInt(1)>> >>)>> >>)),
      Doc(JDict(<< <<"sim", JDict(<< <<"secondsPerDay", JInt(0)>> >>)>> >>)),
      Doc(JDict(<< <<"sim", JDict(<< <<"startDate", JStr("2200-13-01")>> >>)>> >>)),
      Doc(JDict(<< <<"startingScenario", Null>> >>)) }

NearValidFiles ==
    { [Baseline EXCEPT !.blueprints = Doc(WithPart(c)), !.tech_tree = t] :
        c \in TypedComponents,
        t \in { Doc(TechTreeDoc),
                Doc(TechDoc(<< Tech("A", << >>,
                                    << Effect("unlock_component", "part") >>) >>)) } }
    \cup
    [resources : NearValidResources,
     blueprints : { Doc(b) : b \in NearValidBlueprints },
     tech_tree : NearValidTechs, settings : NearValidSettings]
    \cup
    { [Baseline EXCEPT ![l] = f] : l \in DOMAIN Baseline,
                                   f \in {Missing, Unparsable, Doc(JList(<< >>)), Doc(Null)} }

InitValid ==
    /\ \E fs \in NearValidFiles : Start(fs)
    /\ calls = 1
    /\ prev = NoPrev

SpecValid == InitValid /\ [][Next]_vars

---------------------------------------------------------------------------
(* Runs over records with several faulty fields at once: one record of the *)
(* baseline content is replaced by a record in which each field is right,  *)
(* wrong or missing.                                                       *)

FaultyResources ==
    { Record(<< <<"name", n>>, <<"category", c>>, <<"mineable", m>>,
                <<"salvage_research_rp_per_ton", r>> >>) :
        n \in {JStr("Iron"), Absent, JStr("")},
        c \in {JStr("metal"), JInt(1)},
        m \in {JBool(TRUE), JStr("yes"), Absent},
        r \in {JFloat(500), JFloat(-1), JBool(TRUE)} }

FaultyComponents ==
    { Record(<< <<"name", n>>, <<"type", t>>, <<"mass_tons", m>>,
                <<"speed_km_s", a>>, <<"fuel_use_per_mkm", b>> >>) :
        n \in {JStr("Part"), Absent},
        t \in {JStr("engine"), JStr("warp"), JInt(1), Absent},
        m \in {JInt(50), JStr("heavy"), Null},
        a \in {JFloat(1), JFloat(0), Absent},
        b \in {JInt(0), JInt(-1)} }

FaultyDesigns ==
    { Record(<< <<"id", id>>, <<"name", n>>, <<"role", r>>, <<"components", c>> >>) :
        id \in {JStr("frigate"), JStr("scout"), JInt(1), Absent},
        n \in {JStr("Ship"), Absent},
        r \in {JStr("combatant"), JStr("pirate"), Absent},
        c \in {JList(<< JStr("eng"), JStr("gun") >>), JStr("eng"), Absent,
               JList(<< JStr("warp"), JStr("eng"), JStr("") >>)} }

\* A design list in which the id scout occurs three times and frigate twice.
RepeatedDesigns ==
    << Design("scout", JStr("surveyor"), << JStr("eng") >>),
       With(Design("scout", JStr("pirate"), << JStr("warp") >>), "name", Null),
       Design("frigate", JStr("combatant"), << JStr("eng"), JStr("gun") >>),
       Design("scout", JStr("combatant"), << JStr("eng"), JStr("gun") >>),
       Without(Design("frigate", JStr("combatant"), << JInt(1) >>), "name") >>

FaultyInstallations ==
    { Record(<< <<"name", n>>, <<"construction_cost", c>>, <<"build_costs", b>> >>) :
        n \in {JStr("Mine"), JStr("")},
        c \in {JInt(100), JInt(-1), Null, Absent},
        b \in {JDict(<< <<"iron", JInt(10)>> >>), JList(<< >>), Absent} }

FaultyEffects ==
    { Record(<< <<"type", t>>, <<"value", v>>, <<"amount", a>> >>) :
        t \in {JStr("unlock_component"), JStr("unlock_installation"),
               JStr("faction_output_bonus"), JStr("warp"), JInt(1), Absent},
        v \in {JStr("eng"), JStr("mine"), JStr("mining"), JStr(""), Absent},
        a \in {JFloat(100), JFloat(-1), Absent} }

FaultyTechs ==
    { Record(<< <<"id", id>>, <<"name", n>>, <<"cost", c>>, <<"prereqs", p>>,
                <<"effects", e>> >>) :
        id \in {JStr("B"), JStr("A"), JStr(""), Absent},
        n \in {JStr("Tech"), JInt(1)},
        c \in {JInt(100), JInt(-1), JFloat(1000)},
        p \in {JList(<< JStr("A") >>), JStr("A"), Absent, JList(<< JStr("Z") >>)},
        e \in {JList(<< Effect("unlock_installation", "mine") >>), Null,
               JList(<< Effect("unlock_component", "nope"), JInt(1) >>)} }
    \cup { Tech("B", << JStr("A") >>, << e >>) : e \in FaultyEffects }

\* A tech list in which the id A occurs three times and B twice.
RepeatedTechs ==
    << Tech("A", << >>, << Effect("unlock_component", "eng") >>),
       With(Tech("A", << JStr("A") >>, << >>), "name", JInt(1)),
       Tech("B", << JStr("A") >>, << >>),
       Tech("A", << JStr("Z"), JStr("B") >>, << Effect("unlock_component", "nope") >>),
       Tech("B", << JStr("B") >>, << >>) >>

\* Blueprint documents whose sections are each absent, of the wrong kind,
\* right, or of the right kind with faulty records in it.
FaultySections ==
    { Record(<< <<"version", JInt(1)>>, <<"components", c>>, <<"designs", d>>,
                <<"installations", i>> >>) :
        c \in {Get(BlueprintsDoc, "components"), JDict(<< >>),
               JDict(<< <<"eng", Engine>>, <<"gun", JInt(1)>> >>),
               Absent, Null, JList(<< >>), JStr("eng")},
        d \in {Get(BlueprintsDoc, "designs"), Absent, JDict(<< >>),
               JList(<< Design("scout", JStr("pirate"), << JStr("warp"), JStr("eng") >>),
                        JInt(1),
                        With(Design("scout", JStr("surveyor"), << JStr("gun") >>),
                             "name", JInt(1)) >>)},
        i \in {Get(BlueprintsDoc, "installations"), Absent, Null, JList(<< >>),
               JDict(<< <<"mine", With(With(Mine, "name", JInt(1)), "build_costs",
                                       JDict(<< <<"gold", JInt(1)>> >>))>>,
                        <<"dock", JInt(1)>> >>)} }

\* The baseline with its first resource, its second design, its
\* installation or its second tech replaced, or with one more component;
\* and the baseline with the sections of its blueprints replaced.
FaultyRecordFiles ==
    { [Baseline EXCEPT !.resources =
          Doc(With(ResourcesDoc, "resources",
                   JDict(<< <<"iron", r>>, <<"fuel", Resource("Fuel")>> >>)))] :
        r \in FaultyResources }
    \cup { [Baseline EXCEPT !.blueprints = Doc(WithPart(c)), !.tech_tree = t] :
             c \in FaultyComponents,
             t \in { Doc(TechTreeDoc),
                     Doc(TechDoc(<< Tech("A", << >>,
                                         << Effect("unlock_component", "part") >>) >>)) } }
    \cup { [Baseline EXCEPT !.blueprints =
              Doc(With(BlueprintsDoc, "designs",
                       JList(<< Design("scout", JStr("surveyor"), << JStr("eng") >>),
                                d >>)))] : d \in FaultyDesigns }
    \cup { [Baseline EXCEPT !.blueprints =
              Doc(With(BlueprintsDoc, "designs", JList(RepeatedDesigns)))] }
    \cup { [Baseline EXCEPT !.blueprints =
              Doc(With(BlueprintsDoc, "installations", JDict(<< <<"mine", i>> >>)))] :
             i \in FaultyInstallations }
    \cup { [Baseline EXCEPT !.tech_tree =
              Doc(TechDoc(<< Tech("A", << >>, << Effect("unlock_component", "eng") >>),
                             t >>))] : t \in FaultyTechs }
    \cup { [Baseline EXCEPT !.tech_tree = Doc(TechDoc(RepeatedTechs))] }
    \cup { [Baseline EXCEPT !.blueprints = Doc(b)] : b \in FaultySections }

InitRecords ==
    /\ \E fs \in FaultyRecordFiles : Start(fs)
    /\ calls = 1
    /\ prev = NoPrev

SpecRecords == InitRecords /\ [][Next]_vars

---------------------------------------------------------------------------
(* The primitive checkers called on their own: one call of a checker on a  *)
(* value, with a sink that may already hold an issue.                      *)

CheckerValues ==
    { Null, JBool(TRUE), JBool(FALSE),
      JInt(-1), JInt(0), JInt(1), JInt(2), JInt(HugeInt), JInt(-HugeInt),
      JFloat(-1), JFloat(0), JFloat(1), JFloat(999), JFloat(1000), JFloat(1001),
      JStr(""), JStr("a"),
      JList(<< >>), JList(<< JInt(1) >>),
      JDict(<< >>), JDict(<< <<"k", Null>> >>) }

CheckerSinks == { << >>, << ValidationIssue(ResourcesFile, "", "Missing file") >> }

CheckerParts ==
    { << K("components"), K("eng"), K("mass_tons") >>, << K("designs"), I(0) >> }

\* The lower bounds the loaders pass to a checker (min_value).
CheckerMins(fn) ==
    CASE fn = "_require_int" -> {NoMin, IntMin0, IntMin1}
      [] fn = "_require_number" -> {NoMin, FloatMin0, FloatMinMilli}
      [] OTHER -> {NoMin}

CheckerNames ==
    {"_require_dict", "_require_list", "_require_str", "_require_int",
     "_require_number", "_require_bool"}

CheckerCalls ==
    UNION { [fn : {fn}, file : {BlueprintsFile}, parts : CheckerParts,
             v : CheckerValues, what : {"x"}, min : CheckerMins(fn),
             ret : {Null}] : fn \in CheckerNames }

InitCheckers ==
    /\ files = Baseline
    /\ pc = "checker"
    /\ issues \in CheckerSinks
    /\ call \in CheckerCalls
    /\ ran = << >>
    /\ resource_ids = {}
    /\ component_ids = {}
    /\ installation_ids = {}
    /\ tech_by_id = << >>
    /\ visiting = {}
    /\ visited = {}
    /\ stack = << >>
    /\ frames = << >>
    /\ root_i = 1
    /\ calls = 1
    /\ prev = NoPrev

\* The checker leaves with the outcome r: its issue is appended to the
\* sink, and it returns r.ret or raises r.exc.
Checked(r) ==
    /\ issues' = issues \o r.iss
    /\ call' = [call EXCEPT !.ret = r.ret]
    /\ pc' = IF r.exc = "" THEN "checked" ELSE "raised"
    /\ UNCHANGED << files, ran, idVars, walkVars, calls, prev >>

CallRequireDict ==
    /\ pc = "checker" /\ call.fn = "_require_dict"
    /\ Checked(RequireDict(call.file, call.parts, call.v, call.what))

CallRequireList ==
    /\ pc = "checker" /\ call.fn = "_require_list"
    /\ Checked(RequireList(call.file, call.parts, call.v, call.what))

CallRequireStr ==
    /\ pc = "checker" /\ call.fn = "_require_str"
    /\ Checked(RequireStr(call.file, call.parts, call.v, call.what))

CallRequireInt ==
    /\ pc = "checker" /\ call.fn = "_require_int"
    /\ Checked(RequireInt(call.file, call.parts, call.v, call.what, call.min))

CallRequireNumber ==
    /\ pc = "checker" /\ call.fn = "_require_number"
    /\ Checked(RequireNumber(call.file, call.parts, call.v, call.what, call.min))

CallRequireBool ==
    /\ pc = "checker" /\ call.fn = "_require_bool"
    /\ Checked(RequireBool(call.file, call.parts, call.v, call.what))

NextCheckers ==
    \/ CallRequireDict
    \/ CallRequireList
    \/ CallRequireStr
    \/ CallRequireInt
    \/ CallRequireNumber
    \/ CallRequireBool

SpecCheckers == InitCheckers /\ [][NextCheckers]_vars

---------------------------------------------------------------------------
(* The claims.                                                             *)

\* The number of issues of the run equal to x.
Count(x) == Cardinality({ i \in 1..Len(issues) : issues[i] = x })

Returned == pc = "done"

\* The document of a file, or Null when the file holds no object.
Top(f) == IF HasTop(f) THEN f.data ELSE Null

\* The members of a section of a document: the values of an array with
\* their index, the entries of an object with their key; none when the
\* section is missing or of another type.
Elems(v) == IF IsList(v) THEN { [at |-> I(i - 1), v |-> v.items[i], i |-> i] :
                                  i \in 1..Len(v.items) }
            ELSE { }
Entries(v) == IF IsDict(v) THEN { [at |-> K(v.items[i][1]), k |-> v.items[i][1],
                                   v |-> v.items[i][2], i |-> i] :
                                  i \in 1..Len(v.items) }
              ELSE { }
Field(v, k) == IF IsDict(v) THEN Get(v, k) ELSE Null

\* A reference slot: the issue an unresolved reference in it is to raise,
\* whether the id is in the catalog it refers to, whether the record
\* holding it is one the loaders validate, and its place in the document
\* (the index of the record in its section and of the slot in the record; for
\* a resource map, grp is the field holding the map).
Slot(file, parts, kind, id, known, checked, ord, grp) ==
    [issue |-> ValidationIssue(file, JsonPointer(parts),
                               "unknown " \o kind \o " '" \o id \o "'"),
     known |-> known, checked |-> checked, ord |-> ord, grp |-> grp]

BlueprintsChecked == IsDict(Field(Top(files.blueprints), "components"))

DesignSlots ==
    { Slot(BlueprintsFile, << K("designs"), d.at, K("components"), c.at >>,
           "component", c.v.s, c.v.s \in component_ids, BlueprintsChecked,
           << d.i, c.i >>, "") :
        <<d, c>> \in { <<d, c>> \in
            UNION { {d} \X Elems(Field(d.v, "components")) :
                    d \in Elems(Field(Top(files.blueprints), "designs")) } :
            IsNonEmptyStr(c.v) } }

MapFields == {"build_costs", "build_costs_per_ton", "produces", "consumes"}

MapSlots ==
    { Slot(BlueprintsFile, << K("installations"), x[1].at, K(x[2]), x[3].at >>,
           "resource", x[3].k, x[3].k \in resource_ids, BlueprintsChecked,
           << x[1].i, x[3].i >>, x[2]) :
        x \in { x \in
            UNION { UNION { {inst} \X {f} \X Entries(Field(inst.v, f)) : f \in MapFields } :
                    inst \in Entries(Field(Top(files.blueprints), "installations")) } :
            x[1].k # "" /\ x[3].k # "" } }

TechEntries == Elems(Field(Top(files.tech_tree), "techs"))

\* The tech entry is checked: it has an id and no earlier entry has it.
TechChecked(t) ==
    /\ IsNonEmptyStr(Field(t.v, "id"))
    /\ \A u \in TechEntries : u.i < t.i => Field(u.v, "id") # Field(t.v, "id")

TechIdsDefined ==
    { Field(t.v, "id").s : t \in { u \in TechEntries : IsNonEmptyStr(Field(u.v, "id")) } }

EffectSlots ==
    { Slot(TechFile, << K("techs"), x[1].at, K("effects"), x[2].at, K("value") >>,
           IF Field(x[2].v, "type") = JStr("unlock_component") THEN "component"
           ELSE "installation",
           Field(x[2].v, "value").s,
           IF Field(x[2].v, "type") = JStr("unlock_component")
           THEN Field(x[2].v, "value").s \in component_ids
           ELSE Field(x[2].v, "value").s \in installation_ids,
           TechChecked(x[1]), << x[1].i, x[2].i >>, "") :
        x \in { x \in UNION { {t} \X Elems(Field(t.v, "effects")) : t \in TechEntries } :
                  /\ Field(x[2].v, "type") \in {JStr("unlock_component"),
                                                JStr("unlock_installation")}
                  /\ IsNonEmptyStr(Field(x[2].v, "value")) } }

PrereqSlots ==
    { Slot(TechFile, << K("techs"), x[1].at, K("prereqs"), x[2].at >>,
           "prereq tech", x[2].v.s, x[2].v.s \in TechIdsDefined, TechChecked(x[1]),
           << x[1].i, x[2].i >>, "") :
        x \in { x \in UNION { {t} \X Elems(Field(t.v, "prereqs")) : t \in TechEntries } :
                  IsNonEmptyStr(x[2].v) } }

RefSlots == DesignSlots \cup MapSlots \cup EffectSlots \cup PrereqSlots

---------------------------------------------------------------------------
(* The cycle issues and the prerequisite graph.                            *)

\* The array of techs of the tech tree document.
TechItems ==
    IF IsList(Field(Top(files.tech_tree), "techs"))
    THEN Field(Top(files.tech_tree), "techs").items ELSE << >>

\* The registered techs: the first entry of each id.
Registered == { t \in TechEntries : TechChecked(t) }

\* The prerequisite graph restricted to the tech ids that exist: an edge
\* from a tech to each string of its prerequisite array that is a tech id.
PrereqEdges ==
    { << Field(x[1].v, "id").s, x[2].v.s >> :
        x \in { y \in UNION { {t} \X Elems(Field(t.v, "prereqs")) : t \in Registered } :
                  IsStr(y[2].v) /\ y[2].v.s \in TechIdsDefined } }

RECURSIVE PathsWithin(_, _)
\* The pairs joined by a path of 1 to n edges of R.
PathsWithin(R, n) ==
    IF n <= 1 THEN R
    ELSE LET P == PathsWithin(R, n - 1)
         IN  P \cup { << pe[1][1], pe[2][2] >> :
                        pe \in { qe \in P \X R : qe[1][2] = qe[2][1] } }

\* A chain of prerequisite edges returns to its starting node.
HasCycle ==
    \E id \in TechIdsDefined :
        << id, id >> \in PathsWithin(PrereqEdges, Cardinality(TechIdsDefined))

\* The messages a cycle issue can carry: the prefix and ids joined by arrows.
CycleMessages ==
    { "tech prereq cycle detected: " \o JoinArrow(c) :
        c \in UNION { SeqsOfLen(TechIdsDefined, n) :
                        n \in 2..(Cardinality(TechIdsDefined) + 1) } }

IsCycleIssue(x) ==
    x.file = TechFile /\ x.pointer = "" /\ x.message \in CycleMessages

CycleIssueCount == Cardinality({ i \in 1..Len(issues) : IsCycleIssue(issues[i]) })

\* C2: a tech list whose prerequisite edges form the single cycle
\* A -> B -> C -> A raises exactly one cycle issue in every document order
\* of the three techs, and a diamond (D requires B and C, which both require
\* A) raises none, in every document order and order of D's prerequisites.
C2_ThreeCycleOnceDiamondNone ==
    Returned => /\ TechItems \in ThreeCycleLists => CycleIssueCount = 1
                /\ TechItems \in DiamondLists => CycleIssueCount = 0

\* C2 witness: the three-cycle with B first in the document, reported once
\* from the root B.
C2_Witness ==
    /\ Returned
    /\ TechItems \in ThreeCycleLists
    /\ Get(TechItems[1], "id") = JStr("B")
    /\ CycleIssueCount = 1
    /\ Count(ValidationIssue(TechFile, "",
                             "tech prereq cycle detected: B -> C -> A -> B")) = 1

\* C3: when validate_all returns, there is a cycle issue if and only if the
\* prerequisite graph over the tech ids of the list has a cycle (a self-loop
\* included).
C3_CycleIssueIffCyclic ==
    Returned => (CycleIssueCount >= 1 <=> HasCycle)

\* C3 witness: a tech that lists itself as a prerequisite, and the cycle
\* issue naming it.
C3_Witness ==
    /\ Returned
    /\ \E id \in TechIdsDefined :
          /\ << id, id >> \in PrereqEdges
          /\ Count(ValidationIssue(TechFile, "",
                "tech prereq cycle detected: " \o id \o " -> " \o id)) >= 1
    /\ HasCycle

---------------------------------------------------------------------------
(* Missing and unparsable files, and the order of the loaders.             *)

LoaderOrder == << "resources", "blueprints", "tech_tree", "settings" >>

PathOf(loader) ==
    CASE loader = "resources" -> ResourcesFile
      [] loader = "blueprints" -> BlueprintsFile
      [] loader = "tech_tree" -> TechFile
      [] loader = "settings" -> SettingsFile

\* The number of issues of the run for a file, and at an address of it.
IssuesOf(file) == Cardinality({ i \in 1..Len(issues) : issues[i].file = file })
IssuesAt(file, pointer) ==
    Cardinality({ i \in 1..Len(issues) :
                    issues[i].file = file /\ issues[i].pointer = pointer })

\* The one issue of a file that is missing or unparsable.
BrokenFileIssue(loader) ==
    ValidationIssue(PathOf(loader), "",
        IF files[loader].st = "missing" THEN "file not found"
        ELSE "failed to parse JSON: Expecting value: line 1 column 1 (char 0)")

\* The references into the catalog a loader's file defines.
SlotsInto(loader) ==
    CASE loader = "resources" -> MapSlots
      [] loader = "blueprints" -> EffectSlots
      [] OTHER -> { }

\* What a missing or unparsable file of a loader leaves in a returned run,
\* for the reference slots S into its catalog.
BrokenFileHandled(loader, S) ==
    /\ IssuesOf(PathOf(loader)) = 1
    /\ Count(BrokenFileIssue(loader)) = 1
    /\ loader = "resources" => resource_ids = {}
    /\ loader = "blueprints" => component_ids = {} /\ installation_ids = {}
    /\ ran = LoaderOrder
    /\ \A s \in S : Count(s.issue) = 1

FileRank(file) == CHOOSE n \in 1..4 : PathOf(LoaderOrder[n]) = file

\* C5: in every run the four loaders execute once each in the order
\* resources, blueprints, tech tree, settings (the loaders that have run are
\* always the first ones of that order, and all four when the run has
\* ended), and the issues of each loader form one block of the issue
\* sequence, the blocks in that order.
C5_LoadersOnceInOrder ==
    /\ \E n \in 0..4 : ran = SubSeq(LoaderOrder, 1, n)
    /\ pc \in {"done", "raised"} => ran = LoaderOrder
    /\ \A i, j \in 1..Len(issues) :
          i < j => FileRank(issues[i].file) <= FileRank(issues[j].file)

---------------------------------------------------------------------------
(* The tests.                                                              *)

\* The component ids the blueprint document of fs declares.
DeclaredComponents(fs) ==
    { e.k : e \in Entries(Field(Top(fs.blueprints), "components")) }

\* The issue for the id appended to the component list of design i of the
\* previous content.
InjectedIssue ==
    LET d == Get(prev.files.blueprints.data, "designs").items[prev.change.i]
    IN  ValidationIssue(BlueprintsFile,
            JsonPointer(<< K("designs"), I(prev.change.i - 1), K("components"),
                           I(Len(Get(d, "components").items)) >>),
            "unknown component '" \o prev.change.id \o "'")

\* C6: when content validated with no issue, and a non-empty id that is no
\* component of it is appended to the component list of one of its designs,
\* validate_all returns exactly one issue, the "unknown component" issue
\* naming the id at the new entry of the list.
C6_InjectedComponentReportedOnce ==
    (/\ Returned
     /\ prev.change.kind = "component"
     /\ prev.issues = << >>
     /\ prev.change.id \notin DeclaredComponents(prev.files))
    => issues = << InjectedIssue >>

\* C6 witness: the id of an installation appended to the second design.
C6_Witness ==
    /\ Returned
    /\ prev.change = [kind |-> "component", i |-> 2, id |-> "mine"]
    /\ prev.issues = << >>
    /\ Count(InjectedIssue) = 1

ClaimedRoles == {"freighter", "surveyor", "combatant", "unknown"}

\* The designs whose role is a string, with the address of the role.
RoleSlots ==
    { [pointer |-> JsonPointer(<< K("designs"), d.at, K("role") >>),
       role |-> Field(d.v, "role").s] :
        d \in { e \in Elems(Field(Top(files.blueprints), "designs")) :
                  IsStr(Field(e.v, "role")) } }

\* A role outside the set raises one issue, "unknown ship role" with the
\* role; a role of the set raises none.
RoleReported(s) ==
    IF s.role \in ClaimedRoles
    THEN IssuesAt(BlueprintsFile, s.pointer) = 0
    ELSE /\ IssuesAt(BlueprintsFile, s.pointer) = 1
         /\ Count(ValidationIssue(BlueprintsFile, s.pointer,
                                  "unknown ship role '" \o s.role \o "'")) = 1

\* C7, as stated: for every design whose role is a string, a role outside
\* {freighter, surveyor, combatant, unknown} raises exactly one issue for
\* the role, an "unknown ship role" issue with the value, and a role of the
\* set raises none.
C7_EveryRoleString ==
    Returned => \A s \in RoleSlots : RoleReported(s)

\* C7, amended: the same for a role that is a non-empty string, in a design
\* of a blueprint document whose components section is an object.
C7_NonEmptyRoleOfValidatedDesign ==
    Returned => \A s \in RoleSlots :
                  BlueprintsChecked /\ s.role # "" => RoleReported(s)

\* C7 witness: the role of the test set in the second design of content
\* that had no role issue.
C7_Witness ==
    /\ Returned
    /\ BlueprintsChecked
    /\ prev.change = [kind |-> "role", i |-> 2, id |-> "not_a_real_role"]
    /\ Count(ValidationIssue(BlueprintsFile, "/designs/1/role",
                             "unknown ship role 'not_a_real_role'")) = 1
    /\ \E s \in RoleSlots : s.role \in ClaimedRoles

\* s1 comes before s2 in the document: in an earlier record, or earlier in
\* the same list or map of one record.
Before(s1, s2) ==
    \/ s1.ord[1] < s2.ord[1]
    \/ s1.ord[1] = s2.ord[1] /\ s1.grp = s2.grp /\ s1.ord[2] < s2.ord[2]

\* The unresolved references of a section are reported in document order.
InDocumentOrder(S) ==
    \A s1, s2 \in { s \in S : s.checked /\ ~s.known } :
        Before(s1, s2) =>
            \E i, j \in 1..Len(issues) :
                i < j /\ issues[i] = s1.issue /\ issues[j] = s2.issue

---------------------------------------------------------------------------
(* Weapons and resource maps.                                              *)

BeamFields == {"damage", "weapon_range_mkm"}
MissileFields == {"missile_damage", "missile_range_mkm", "missile_speed_mkm_per_day",
                  "missile_reload_days", "missile_ammo"}
PointDefenseFields == {"point_defense_damage", "point_defense_range_mkm"}
WeaponGroups == {BeamFields, MissileFields, PointDefenseFields}
WeaponFields == UNION WeaponGroups

\* A group is present in a weapon when the weapon has its damage or its
\* range field.
GroupPresent(c, g) ==
    \E f \in g \cap {"damage", "weapon_range_mkm", "missile_damage",
                     "missile_range_mkm", "point_defense_damage",
                     "point_defense_range_mkm"} : Has(c.v, f)

\* The field has a valid value: an integer >= 0 for the reload days and the
\* ammunition, a number >= 0 for the others.
FieldValid(c, f) ==
    /\ Has(c.v, f)
    /\ LET v == Get(c.v, f)
       IN  \/ v.t = "int" /\ v.n >= 0
           \/ v.t = "float" /\ v.m >= 0 /\ f \notin {"missile_reload_days", "missile_ammo"}

\* The components declared as weapons.
WeaponComponents ==
    { c \in Entries(Field(Top(files.blueprints), "components")) :
        c.k # "" /\ Field(c.v, "type") = JStr("weapon") }

ComponentAddress(c) == JsonPointer(<< K("components"), c.at >>)
FieldAddress(c, f) == JsonPointer(<< K("components"), c.at, K(f) >>)

MustDefineIssue(c) ==
    ValidationIssue(BlueprintsFile, ComponentAddress(c),
                    "weapon must define beam/missile/point-defense fields")

MapEntries ==
    { [pointer |-> JsonPointer(<< K("installations"), x[1].at, K(x[2]), x[3].at >>),
       k |-> x[3].k, v |-> x[3].v,
       checked |-> BlueprintsChecked /\ x[1].k # ""] :
        x \in UNION { UNION { {inst} \X {f} \X Entries(Field(inst.v, f)) : f \in MapFields } :
                      inst \in Entries(Field(Top(files.blueprints), "installations")) } }

\* The value of an entry is a number >= 0.
AmountValid(v) == (v.t = "int" /\ v.n >= 0) \/ (v.t = "float" /\ v.m >= 0)

\* The entry raises an "unknown resource" issue when its key is no resource
\* id, one other issue when its value is no number >= 0, and nothing else.
EntryReported(e) ==
    /\ Count(ValidationIssue(BlueprintsFile, e.pointer,
                             "unknown resource '" \o e.k \o "'"))
         = IF e.k \in resource_ids THEN 0 ELSE 1
    /\ IssuesAt(BlueprintsFile, e.pointer)
         = (IF e.k \in resource_ids THEN 0 ELSE 1) + (IF AmountValid(e.v) THEN 0 ELSE 1)

\* C9, as stated: every entry of a resource map of an installation raises,
\* at its own address, one "unknown resource" issue when its key is no
\* resource id and one shape issue when its value is no number >= 0, whatever
\* the other entries are.
C9_EveryMapEntry ==
    Returned => \A e \in MapEntries : EntryReported(e)

\* C9, amended: the same for the entries with a non-empty key, in an
\* installation the loader validates.
C9_NonEmptyKeyEntry ==
    Returned => \A e \in MapEntries : e.checked /\ e.k # "" => EntryReported(e)

\* C9 witness: a map with an entry whose key is unknown and whose value is
\* invalid, reported twice, next to an entry with a known key and a valid
\* value, not reported.
C9_Witness ==
    /\ Returned
    /\ \E e1, e2 \in MapEntries :
          /\ e1.checked /\ e1.k # "" /\ e1.k \notin resource_ids /\ ~AmountValid(e1.v)
          /\ IssuesAt(BlueprintsFile, e1.pointer) = 2
          /\ e2.checked /\ e2.k \in resource_ids /\ AmountValid(e2.v)
          /\ IssuesAt(BlueprintsFile, e2.pointer) = 0

---------------------------------------------------------------------------
(* Valid content.                                                          *)

\* v is a number >= min (min in thousandths), an integer >= min.
NumberAtLeast(v, min) ==
    (v.t = "int" /\ v.n * 1000 >= min) \/ (v.t = "float" /\ v.m >= min)
IntegerAtLeast(v, min) == v.t = "int" /\ v.n >= min

\* The fields of a component by type: the field, whether it is an integer,
\* its lower bound (in thousandths for a number) and whether it is required.
FieldOf(f, int, min, req) == [f |-> f, int |-> int, min |-> min, req |-> req]
TypeFields(type) ==
    CASE type = "engine" -> { FieldOf("speed_km_s", FALSE, 1, TRUE),
                              FieldOf("fuel_use_per_mkm", FALSE, 0, TRUE) }
      [] type = "cargo" -> { FieldOf("cargo_tons", FALSE, 1, TRUE) }
      [] type = "mining" -> { FieldOf("mining_tons_per_day", FALSE, 1, TRUE) }
      [] type = "fuel_tank" -> { FieldOf("fuel_capacity_tons", FALSE, 1, TRUE) }
      [] type = "colony_module" -> { FieldOf("colony_capacity_millions", FALSE, 1, TRUE) }
      [] type = "troop_bay" -> { FieldOf("troop_capacity", TRUE, 1, TRUE) }
      [] type = "sensor" -> { FieldOf("range_mkm", FALSE, 1, FALSE),
                              FieldOf("ecm_strength", FALSE, 0, FALSE),
                              FieldOf("eccm_strength", FALSE, 0, FALSE) }
      [] type = "reactor" -> { FieldOf("power", FALSE, 1, TRUE) }
      [] type = "armor" -> { FieldOf("hp_bonus", FALSE, 0, FALSE),
                             FieldOf("signature_multiplier", FALSE, 0, FALSE) }
      [] type = "shield" -> { FieldOf("shield_hp", FALSE, 1, TRUE),
                              FieldOf("shield_regen_per_day", FALSE, 0, TRUE) }
      [] OTHER -> { }

ComponentTypes ==
    {"armor", "cargo", "colony_module", "engine", "fuel_tank", "mining", "reactor",
     "sensor", "shield", "troop_bay", "weapon"}

\* The field of the record c is as its description fd requires.
FieldWellTyped(c, fd) ==
    IF Has(c, fd.f)
    THEN IF fd.int THEN IntegerAtLeast(Get(c, fd.f), fd.min)
         ELSE NumberAtLeast(Get(c, fd.f), fd.min)
    ELSE ~fd.req

\* A weapon has a field of some group, and every group it has a field of
\* has all its fields, valid.
WeaponWellTyped(c) ==
    /\ \E f \in WeaponFields : Has(c, f)
    /\ \A g \in WeaponGroups :
          (\E f \in g : Has(c, f)) =>
              \A f \in g : FieldWellTyped(c, FieldOf(f, f \in {"missile_reload_days",
                                                                "missile_ammo"}, 0, TRUE))

ValidComponent(e) ==
    /\ e.k # ""
    /\ IsDict(e.v)
    /\ IsNonEmptyStr(Get(e.v, "name"))
    /\ IsStr(Get(e.v, "type")) /\ Get(e.v, "type").s \in ComponentTypes
    /\ FieldWellTyped(e.v, FieldOf("mass_tons", FALSE, 0, FALSE))
    /\ \A fd \in TypeFields(Get(e.v, "type").s) : FieldWellTyped(e.v, fd)
    /\ Get(e.v, "type").s = "weapon" => WeaponWellTyped(e.v)

\* The ids a document declares.
DeclaredResources == { e.k : e \in Entries(Field(Top(files.resources), "resources")) }
DeclaredInstallations ==
    { e.k : e \in Entries(Field(Top(files.blueprints), "installations")) }

ValidResources ==
    LET top == Top(files.resources)
    IN  /\ IsDict(top)
        /\ IntegerAtLeast(Get(top, "version"), 1)
        /\ IsDict(Get(top, "resources"))
        /\ \A e \in Entries(Get(top, "resources")) :
              /\ e.k # ""
              /\ IsDict(e.v)
              /\ IsNonEmptyStr(Get(e.v, "name"))
              /\ IsNonEmptyStr(Get(e.v, "category"))
              /\ Get(e.v, "mineable").t = "bool"
              /\ NumberAtLeast(Get(e.v, "salvage_research_rp_per_ton"), 0)

ValidDesign(d, all) ==
    /\ IsDict(d.v)
    /\ IsNonEmptyStr(Get(d.v, "id"))
    /\ \A o \in all : o.i # d.i => Field(o.v, "id") # Get(d.v, "id")
    /\ IsNonEmptyStr(Get(d.v, "name"))
    /\ IsStr(Get(d.v, "role")) /\ Get(d.v, "role").s \in ClaimedRoles
    /\ IsList(Get(d.v, "components"))
    /\ \A c \in Elems(Get(d.v, "components")) :
          IsNonEmptyStr(c.v) /\ c.v.s \in DeclaredComponents(files)

ValidInstallation(e) ==
    /\ e.k # ""
    /\ IsDict(e.v)
    /\ IsNonEmptyStr(Get(e.v, "name"))
    /\ FieldWellTyped(e.v, FieldOf("construction_cost", FALSE, 0, FALSE))
    /\ \A f \in MapFields :
          Has(e.v, f) =>
              /\ IsDict(Get(e.v, f))
              /\ \A m \in Entries(Get(e.v, f)) :
                    m.k # "" /\ m.k \in DeclaredResources /\ NumberAtLeast(m.v, 0)

ValidBlueprint ==
    LET top == Top(files.blueprints)
    IN  /\ IsDict(top)
        /\ IntegerAtLeast(Get(top, "version"), 1)
        /\ Has(top, "include") =>
              /\ IsList(Get(top, "include"))
              /\ \A x \in Elems(Get(top, "include")) :
                    IsStr(x.v) /\ x.v.s \in ExistingIncludes
        /\ IsDict(Get(top, "components"))
        /\ \A e \in Entries(Get(top, "components")) : ValidComponent(e)
        /\ IsList(Get(top, "designs"))
        /\ \A d \in Elems(Get(top, "designs")) :
              ValidDesign(d, Elems(Get(top, "designs")))
        /\ IsDict(Get(top, "installations"))
        /\ \A e \in Entries(Get(top, "installations")) : ValidInstallation(e)

BonusKeys ==
    {"all", "construction", "industry", "mining", "research", "shipyard",
     "terraforming", "troop_training"}

ValidEffect(e) ==
    /\ IsDict(e)
    /\ \/ /\ Get(e, "type") = JStr("unlock_component")
          /\ IsNonEmptyStr(Get(e, "value"))
          /\ Get(e, "value").s \in DeclaredComponents(files)
       \/ /\ Get(e, "type") = JStr("unlock_installation")
          /\ IsNonEmptyStr(Get(e, "value"))
          /\ Get(e, "value").s \in DeclaredInstallations
       \/ /\ Get(e, "type") = JStr("faction_output_bonus")
          /\ IsStr(Get(e, "value")) /\ Get(e, "value").s \in BonusKeys
          /\ NumberAtLeast(Get(e, "amount"), 0)

ValidTechTree ==
    LET top == Top(files.tech_tree)
    IN  /\ IsDict(top)
        /\ IntegerAtLeast(Get(top, "version"), 1)
        /\ IsList(Get(top, "techs"))
        /\ \A t \in TechEntries :
              /\ IsDict(t.v)
              /\ IsNonEmptyStr(Get(t.v, "id"))
              /\ \A o \in TechEntries : o.i # t.i => Field(o.v, "id") # Get(t.v, "id")
              /\ IsNonEmptyStr(Get(t.v, "name"))
              /\ IntegerAtLeast(Get(t.v, "cost"), 0)
              /\ IsList(Get(t.v, "prereqs"))
              /\ \A p \in Elems(Get(t.v, "prereqs")) :
                    IsStr(p.v) /\ p.v.s \in TechIdsDefined
              /\ IsList(Get(t.v, "effects"))
              /\ \A e \in Elems(Get(t.v, "effects")) : ValidEffect(e.v)
        /\ ~HasCycle

CalendarDates == {"2200-01-01"}

ValidSettingsDoc ==
    LET top == Top(files.settings)
    IN  /\ IsDict(top)
        /\ Has(top, "startingScenario") => IsNonEmptyStr(Get(top, "startingScenario"))
        /\ Has(top, "sim") =>
              /\ IsDict(Get(top, "sim"))
              /\ Has(Get(top, "sim"), "startDate") =>
                    /\ IsStr(Get(Get(top, "sim"), "startDate"))
                    /\ Get(Get(top, "sim"), "startDate").s \in CalendarDates
              /\ Has(Get(top, "sim"), "secondsPerDay") =>
                    IntegerAtLeast(Get(Get(top, "sim"), "secondsPerDay"), 1)

\* All four files are present and hold valid documents.
ValidContent == ValidResources /\ ValidBlueprint /\ ValidTechTree /\ ValidSettingsDoc

\* C11: when the content is valid (the four files present and well-formed,
\* every field of the right type and within its bounds, the ids unique,
\* every reference resolved and the prerequisite graph acyclic), the issue
\* list validate_all returns is empty.
C11_ValidContentNoIssue ==
    Returned /\ ValidContent => issues = << >>

\* C11 witness: valid content other than the baseline, with a troop bay of
\* capacity 1 (the lower bound) used by a design and unlocked by a tech, and
\* the empty list returned.
C11_Witness ==
    /\ Returned
    /\ ValidContent
    /\ files # Baseline
    /\ \E e \in Entries(Field(Top(files.blueprints), "components")) :
          /\ Get(e.v, "type") = JStr("troop_bay")
          /\ Get(e.v, "troop_capacity") = JInt(1)
          /\ \E t \in TechEntries : \E x \in Elems(Field(t.v, "effects")) :
                Get(x.v, "value") = JStr(e.k)
    /\ issues = << >>

---------------------------------------------------------------------------
(* The primitive checkers.                                                 *)

\* The value a checker is asked for: what the call accepts.
Acceptable(c) ==
    CASE c.fn = "_require_dict" -> c.v.t = "dict"
      [] c.fn = "_require_list" -> c.v.t = "list"
      [] c.fn = "_require_str" -> c.v.t = "str" /\ c.v.s # ""
      [] c.fn = "_require_bool" -> c.v.t = "bool"
      [] c.fn = "_require_int" -> c.v.t = "int" /\ (c.min.has => c.v.n >= c.min.n)
      [] c.fn = "_require_number" ->
            \/ c.v.t = "int" /\ (c.min.has => c.v.n * 1000 >= c.min.m)
            \/ c.v.t = "float" /\ (c.min.has => c.v.m >= c.min.m)

\* x and y are the same value (Python's ==: 1 == 1.0, and True is no number
\* here).
SameValue(x, y) ==
    \/ x = y
    \/ x.t = "int" /\ y.t = "float" /\ x.n * 1000 = y.m
    \/ x.t = "float" /\ y.t = "int" /\ x.m = y.n * 1000

\* The issues the sink held when the checker was called.
SinkBefore(k) == SubSeq(issues, 1, k)

\* C12: a primitive checker never raises; when it has returned, either the
\* value was acceptable, it returned the value and the sink is as it was, or
\* the value was not acceptable, it returned None and the sink holds exactly
\* one more issue, at the address it was given.  A boolean is acceptable
\* to neither the integer nor the number checker; a value below the lower
\* bound is not acceptable and a value equal to it is.
C12_CheckerContract ==
    /\ call.fn # "" => pc # "raised"
    /\ call.fn # "" /\ pc = "checked" =>
          \E sink \in CheckerSinks :
             IF Acceptable(call)
             THEN SameValue(call.ret, call.v) /\ issues = sink
             ELSE /\ call.ret = Null
                  /\ Len(issues) = Len(sink) + 1
                  /\ SinkBefore(Len(sink)) = sink
                  /\ issues[Len(issues)].file = call.file
                  /\ issues[Len(issues)].pointer = JsonPointer(call.parts)

---------------------------------------------------------------------------
(* The checks of the fields of a record.                                   *)

\* The check of one field: its address, whether the value of the field
\* fails the check, whether the check runs by the claim (claimed) and
\* whether it runs (applies).
FieldCheck(file, parts, fails, claimed, applies) ==
    [file |-> file, pointer |-> JsonPointer(parts), fails |-> fails,
     claimed |-> claimed, applies |-> applies]

\* The records the loaders reach: an object under a non-empty key, or in
\* an array, of a section that is validated.
ResourceRecords ==
    { e \in Entries(Field(Top(files.resources), "resources")) : e.k # "" /\ IsDict(e.v) }
ComponentRecords ==
    { e \in Entries(Field(Top(files.blueprints), "components")) : e.k # "" /\ IsDict(e.v) }
DesignRecords ==
    { d \in Elems(Field(Top(files.blueprints), "designs")) :
        BlueprintsChecked /\ IsDict(d.v) }
InstallationRecords ==
    { e \in Entries(Field(Top(files.blueprints), "installations")) :
        BlueprintsChecked /\ e.k # "" /\ IsDict(e.v) }
TechRecords == { t \in TechEntries : IsDict(t.v) }

\* The tech entry has the id of an earlier entry.
DuplicateTech(t) ==
    /\ IsNonEmptyStr(Field(t.v, "id"))
    /\ \E u \in TechEntries : u.i < t.i /\ Field(u.v, "id") = Field(t.v, "id")

\* The design has the id of an earlier design.
DuplicateDesign(d) ==
    /\ IsNonEmptyStr(Field(d.v, "id"))
    /\ \E u \in DesignRecords : u.i < d.i /\ Field(u.v, "id") = Field(d.v, "id")

KnownEffectTypes == {"unlock_component", "unlock_installation", "faction_output_bonus"}

\* The value of an effect of the given type names nothing.
EffectValueUnknown(type, v) ==
    \/ type = JStr("unlock_component") /\ v.s \notin component_ids
    \/ type = JStr("unlock_installation") /\ v.s \notin installation_ids
    \/ type = JStr("faction_output_bonus") /\ v.s \notin BonusKeys

ResourceChecks ==
    UNION { { FieldCheck(ResourcesFile, << K("resources"), e.at, K("name") >>,
                         ~IsNonEmptyStr(Get(e.v, "name")), TRUE, TRUE),
              FieldCheck(ResourcesFile, << K("resources"), e.at, K("category") >>,
                         ~IsNonEmptyStr(Get(e.v, "category")), TRUE, TRUE),
              FieldCheck(ResourcesFile, << K("resources"), e.at, K("mineable") >>,
                         Get(e.v, "mineable").t # "bool", TRUE, TRUE),
              FieldCheck(ResourcesFile,
                         << K("resources"), e.at, K("salvage_research_rp_per_ton") >>,
                         ~NumberAtLeast(Get(e.v, "salvage_research_rp_per_ton"), 0),
                         TRUE, TRUE) } : e \in ResourceRecords }

\* The fields of a component by its type (a weapon's are the subject of C8)
\* are checked when the type is that type.
ComponentChecks ==
    UNION { { FieldCheck(BlueprintsFile, << K("components"), e.at, K("name") >>,
                         ~IsNonEmptyStr(Get(e.v, "name")), TRUE, TRUE),
              FieldCheck(BlueprintsFile, << K("components"), e.at, K("type") >>,
                         ~(IsNonEmptyStr(Get(e.v, "type"))
                           /\ Get(e.v, "type").s \in ComponentTypes), TRUE, TRUE),
              FieldCheck(BlueprintsFile, << K("components"), e.at, K("mass_tons") >>,
                         /\ Get(e.v, "mass_tons") # Null
                         /\ ~NumberAtLeast(Get(e.v, "mass_tons"), 0), TRUE, TRUE) }
            \cup { FieldCheck(BlueprintsFile, << K("components"), e.at, K(fd.f) >>,
                              ~FieldWellTyped(e.v, fd), TRUE, TRUE) :
                     fd \in IF IsStr(Get(e.v, "type")) THEN TypeFields(Get(e.v, "type").s)
                            ELSE { } } : e \in ComponentRecords }

DesignChecks ==
    UNION { { FieldCheck(BlueprintsFile, << K("designs"), d.at, K("id") >>,
                         ~IsNonEmptyStr(Get(d.v, "id")) \/ DuplicateDesign(d), TRUE, TRUE),
              FieldCheck(BlueprintsFile, << K("designs"), d.at, K("name") >>,
                         ~IsNonEmptyStr(Get(d.v, "name")), TRUE, TRUE),
              FieldCheck(BlueprintsFile, << K("designs"), d.at, K("role") >>,
                         ~(IsNonEmptyStr(Get(d.v, "role"))
                           /\ Get(d.v, "role").s \in ClaimedRoles), TRUE, TRUE),
              FieldCheck(BlueprintsFile, << K("designs"), d.at, K("components") >>,
                         ~IsList(Get(d.v, "components")), TRUE, TRUE) } :
            d \in DesignRecords }

InstallationChecks ==
    UNION { { FieldCheck(BlueprintsFile, << K("installations"), e.at, K("name") >>,
                         ~IsNonEmptyStr(Get(e.v, "name")), TRUE, TRUE),
              FieldCheck(BlueprintsFile,
                         << K("installations"), e.at, K("construction_cost") >>,
                         /\ Has(e.v, "construction_cost")
                         /\ ~NumberAtLeast(Get(e.v, "construction_cost"), 0),
                         TRUE, TRUE) }
            \cup { FieldCheck(BlueprintsFile, << K("installations"), e.at, K(f) >>,
                              Has(e.v, f) /\ ~IsDict(Get(e.v, f)), TRUE, TRUE) :
                     f \in MapFields } : e \in InstallationRecords }

\* By the claim the fields of a tech entry other than its id are checked
\* unless the entry is a duplicate; they are checked when the entry is
\* registered.
TechChecks ==
    UNION { { FieldCheck(TechFile, << K("techs"), t.at, K("id") >>,
                         ~IsNonEmptyStr(Get(t.v, "id")) \/ DuplicateTech(t), TRUE, TRUE),
              FieldCheck(TechFile, << K("techs"), t.at, K("name") >>,
                         ~IsNonEmptyStr(Get(t.v, "name")),
                         ~DuplicateTech(t), TechChecked(t)),
              FieldCheck(TechFile, << K("techs"), t.at, K("cost") >>,
                         ~IntegerAtLeast(Get(t.v, "cost"), 0),
                         ~DuplicateTech(t), TechChecked(t)),
              FieldCheck(TechFile, << K("techs"), t.at, K("prereqs") >>,
                         ~IsList(Get(t.v, "prereqs")),
                         ~DuplicateTech(t), TechChecked(t)),
              FieldCheck(TechFile, << K("techs"), t.at, K("effects") >>,
                         ~IsList(Get(t.v, "effects")),
                         ~DuplicateTech(t), TechChecked(t)) } : t \in TechRecords }

\* The value of an effect is checked when its type is one of the three
\* effect types, and its amount when the type is faction_output_bonus.
EffectChecks ==
    UNION { LET e == x[2]
                type == Get(e.v, "type")
                known == IsStr(type) /\ type.s \in KnownEffectTypes
                at == << K("techs"), x[1].at, K("effects"), e.at >>
            IN  { FieldCheck(TechFile, at \o << K("type") >>,
                             ~(IsNonEmptyStr(type) /\ known), TRUE, TRUE),
                  FieldCheck(TechFile, at \o << K("value") >>,
                             \/ ~IsNonEmptyStr(Get(e.v, "value"))
                             \/ EffectValueUnknown(type, Get(e.v, "value")),
                             known, known),
                  FieldCheck(TechFile, at \o << K("amount") >>,
                             /\ type = JStr("faction_output_bonus")
                             /\ ~NumberAtLeast(Get(e.v, "amount"), 0),
                             TRUE, TRUE) } :
            x \in { y \in UNION { {t} \X Elems(Field(t.v, "effects")) : t \in Registered } :
                      IsDict(y[2].v) } }

FieldChecks ==
    ResourceChecks \cup ComponentChecks \cup DesignChecks \cup InstallationChecks
        \cup TechChecks \cup EffectChecks

\* C13, as stated: in a returned run every field of a resource, component,
\* design, installation, tech or effect that fails its check has its issue,
\* whatever the other fields of the record hold, unless the record is a tech
\* entry with a duplicate id.
C13_NoSiblingSuppressed ==
    Returned =>
        \A c \in FieldChecks :
            c.claimed /\ c.fails => IssuesAt(c.file, c.pointer) = 1

\* C13, amended: in a returned run every field whose check runs has exactly
\* one issue when it fails its check and none when it passes, whatever the
\* other fields of the record hold.  The checks of a record's fields all
\* run, except that the name, cost, prereqs and effects of a tech entry are
\* checked only if its id is a non-empty string that no earlier entry has,
\* and the value of an effect only if its type is one of the three effect
\* types.
C13_NoSiblingSuppressedButByIdOrType ==
    Returned =>
        \A c \in FieldChecks :
            c.applies => IssuesAt(c.file, c.pointer) = (IF c.fails THEN 1 ELSE 0)

\* C13 witness: a returned run over a resource with two faulty fields, an
\* issue for each and none for a field that passes.
C13_Witness ==
    /\ Returned
    /\ \E c, d \in ResourceChecks :
          /\ c # d /\ c.fails /\ d.fails
          /\ IssuesAt(c.file, c.pointer) = 1 /\ IssuesAt(d.file, d.pointer) = 1
          /\ \E e \in ResourceChecks : ~e.fails /\ IssuesAt(e.file, e.pointer) = 0

---------------------------------------------------------------------------
(* Components of an unknown type.                                          *)

\* The components whose type is a non-empty string outside the enumeration.
UnknownTypeComponents ==
    { c \in ComponentRecords :
        IsNonEmptyStr(Get(c.v, "type")) /\ Get(c.v, "type").s \notin ComponentTypes }

UnknownTypeIssue(c) ==
    ValidationIssue(BlueprintsFile, JsonPointer(<< K("components"), c.at, K("type") >>),
                    "unknown component type '" \o Get(c.v, "type").s \o "'")

\* The addresses of the references to the component id: the entries of the
\* design component lists and the values of the unlock_component effects.
ComponentReferences(id) ==
    { [file |-> BlueprintsFile,
       pointer |-> JsonPointer(<< K("designs"), x[1].at, K("components"), x[2].at >>)] :
        x \in { y \in UNION { {d} \X Elems(Field(d.v, "components")) : d \in DesignRecords } :
                  y[2].v = JStr(id) } }
    \cup
    { [file |-> TechFile,
       pointer |-> JsonPointer(<< K("techs"), x[1].at, K("effects"), x[2].at,
                                  K("value") >>)] :
        x \in { y \in UNION { {t} \X Elems(Field(t.v, "effects")) : t \in Registered } :
                  /\ Field(y[2].v, "type") = JStr("unlock_component")
                  /\ Field(y[2].v, "value") = JStr(id) } }

\* C14: in a returned run a component whose type is outside the enumeration
\* has exactly one issue at its type, the "unknown component type" issue;
\* if its name is valid it is among the component ids forwarded, and no
\* design component entry and no unlock_component effect that names it has
\* an issue.
C14_UnknownTypeReportedAndRetained ==
    Returned =>
        \A c \in UnknownTypeComponents :
            /\ Count(UnknownTypeIssue(c)) = 1
            /\ IssuesAt(BlueprintsFile,
                        JsonPointer(<< K("components"), c.at, K("type") >>)) = 1
            /\ IsNonEmptyStr(Get(c.v, "name")) =>
                  /\ c.k \in component_ids
                  /\ \A r \in ComponentReferences(c.k) : IssuesAt(r.file, r.pointer) = 0

\* C14 witness: a returned run with a named component of an unknown type
\* that a design and an unlock_component effect refer to, and its issue.
C14_Witness ==
    /\ Returned
    /\ \E c \in UnknownTypeComponents :
          /\ IsNonEmptyStr(Get(c.v, "name"))
          /\ Count(UnknownTypeIssue(c)) = 1
          /\ \E r, q \in ComponentReferences(c.k) :
                r.file = BlueprintsFile /\ q.file = TechFile

---------------------------------------------------------------------------
(* The cycles the walk reports.                                            *)

\* The elementary cycles of the prerequisite graph, each as the sequence of
\* its ids from any one of them: no id twice, and each id has the next
\* (the last has the first) among its prerequisites.
ElementaryCycles ==
    { c \in UNION { SeqsOfLen(TechIdsDefined, n) : n \in 1..Cardinality(TechIdsDefined) } :
        /\ \A i, j \in 1..Len(c) : i # j => c[i] # c[j]
        /\ \A i \in 1..Len(c) : << c[i], c[(i % Len(c)) + 1] >> \in PrereqEdges }

\* The same cycle from its k-th id.
Rotation(c, k) == SubSeq(c, k, Len(c)) \o SubSeq(c, 1, k - 1)

\* The messages that name the cycle c: its ids from one of them back to it.
MessagesNaming(c) ==
    { "tech prereq cycle detected: " \o JoinArrow(Append(Rotation(c, k), c[k])) :
        k \in 1..Len(c) }

\* The issues of the run that name the cycle c.
IssuesNaming(c) ==
    { i \in 1..Len(issues) :
        /\ issues[i].file = TechFile /\ issues[i].pointer = ""
        /\ issues[i].message \in MessagesNaming(c) }

\* C15: in a returned run no two cycle issues name the same elementary
\* cycle, for every tech list, the lists whose prerequisite arrays name an
\* id more than once included.
C15_OneIssuePerCycle ==
    Returned => \A c \in ElementaryCycles : Cardinality(IssuesNaming(c)) <= 1

---------------------------------------------------------------------------
(* The walk over the prerequisite graph.                                   *)

\* The ids of tech_by_id.
TechIds == { tech_by_id[k].id : k \in 1..Len(tech_by_id) }

\* The walk has ended: validate_tech_tree has returned or been left.
WalkEnded == "tech_tree" \in { ran[k] : k \in 1..Len(ran) } /\ pc # "dfs"

\* C16: the walk terminates for every finite tech list: no call of dfs is
\* made for a tech that is visited or whose call is active, so each tech is
\* descended at most once and added to 'visited' once, and when the walk has
\* ended it has not been left by an exception and every tech id is in
\* 'visited'.
C16_WalkEndsWithEveryTechVisited ==
    /\ Cardinality({ frames[i].tid : i \in 1..Len(frames) }) = Len(frames)
    /\ { frames[i].tid : i \in 1..Len(frames) } \cap visited = {}
    /\ visited \subseteq TechIds
    /\ WalkEnded => pc # "raised" /\ visited = TechIds

\* The issues of the tech tree with an empty pointer, which are the cycle
\* issues when the document of the file is an object.
CycleIssuesOfRun ==
    { i \in 1..Len(issues) : issues[i].file = TechFile /\ issues[i].pointer = "" }

\* The part of the stack from the first occurrence of an id to the top,
\* followed by the id, for the ids on the stack.
StackCycles ==
    { Append(SubSeq(stack, k, Len(stack)), stack[k]) :
        k \in { l \in 1..Len(stack) : \A m \in 1..(l - 1) : stack[m] # stack[l] } }

\* C17: every cycle issue names a genuine elementary cycle.  When the walk
\* appends an issue, its sequence is the stack from the first occurrence of
\* the tech met again to the top, followed by that tech; and the sequence
\* of every cycle issue starts and ends with the same id, repeats no other
\* id, holds only ids of techs, and each of its ids has the next among its
\* prerequisites.
C17_CycleIssuesNameElementaryCycles ==
    /\ [](IsDict(Top(files.tech_tree)) =>
            \A i \in CycleIssuesOfRun :
                \E c \in ElementaryCycles : issues[i].message \in MessagesNaming(c))
    /\ [][pc = "dfs" /\ Len(issues') > Len(issues) =>
            /\ Len(issues') = Len(issues) + 1
            /\ issues'[Len(issues')].file = TechFile
            /\ issues'[Len(issues')].pointer = ""
            /\ \E c \in StackCycles :
                  issues'[Len(issues')].message
                      = "tech prereq cycle detected: " \o JoinArrow(c)]_vars

\* C17 witness: a returned run with an issue for a cycle that the walk
\* entered from a tech outside it or past its first tech: the cycle
\* B -> C -> B met with A at the bottom of the stack.
C17_Witness ==
    /\ Returned
    /\ TechItems \in RepeatedPrereqLists
    /\ Count(ValidationIssue(TechFile, "", "tech prereq cycle detected: B -> C -> B")) = 1
    /\ Count(ValidationIssue(TechFile, "", "tech prereq cycle detected: A -> B -> C -> A")) = 1

---------------------------------------------------------------------------
(* Duplicate tech ids.                                                     *)

\* The addresses of a tech entry and of everything in it.
EntryAddresses(t) ==
    LET at == << K("techs"), t.at >>
    IN  { JsonPointer(at) }
        \cup { JsonPointer(at \o << K(f) >>) :
                 f \in {"id", "name", "cost", "prereqs", "effects"} }
        \cup { JsonPointer(at \o << K("prereqs"), p.at >>) :
                 p \in Elems(Field(t.v, "prereqs")) }
        \cup UNION { { JsonPointer(at \o << K("effects"), e.at >>) }
                     \cup { JsonPointer(at \o << K("effects"), e.at, K(f) >>) :
                              f \in {"type", "value", "amount"} } :
                     e \in Elems(Field(t.v, "effects")) }

\* The issues of the run at an address of the entry.
EntryIssues(t) ==
    { i \in 1..Len(issues) :
        issues[i].file = TechFile /\ issues[i].pointer \in EntryAddresses(t) }

DuplicateTechIssue(t) ==
    ValidationIssue(TechFile, JsonPointer(<< K("techs"), t.at, K("id") >>),
                    "duplicate tech id '" \o Get(t.v, "id").s \o "'")

\* tech_by_id and tech_index_by_id hold the first entry of each id, in the
\* order of the document.
FirstOccurrencesRegistered ==
    /\ Len(tech_by_id) = Cardinality(Registered)
    /\ \A k \in 1..Len(tech_by_id) :
          \E t \in Registered :
             /\ tech_by_id[k] = [id |-> Get(t.v, "id").s, idx |-> t.i - 1]
             /\ k = Cardinality({ u \in Registered : u.i <= t.i })

\* C18: in a returned run every entry of the techs array whose id an
\* earlier entry has raises exactly one issue, the "duplicate tech id" issue
\* at the address of its id, and none at any other address of the entry
\* (name, cost, prerequisites, effects, unknown prerequisites); the
\* reference pass and the cycle detection work on the first entry of each id
\* and its index: the run has a cycle issue exactly when the prerequisites
\* of the first entries form a cycle.
C18_DuplicateTechOnlyReported ==
    Returned /\ IsList(Field(Top(files.tech_tree), "techs")) =>
        /\ \A t \in TechRecords :
              DuplicateTech(t) =>
                  /\ Count(DuplicateTechIssue(t)) = 1
                  /\ Cardinality(EntryIssues(t)) = 1
        /\ FirstOccurrencesRegistered
        /\ CycleIssueCount >= 1 <=> HasCycle

\* C18 witness: a returned run over the list in which A occurs three times:
\* the second A (a faulty name, itself as prerequisite) and the third (an
\* unknown prerequisite and an unknown component) raise the duplicate issue
\* only, and so does the second B, which requires itself: no cycle is
\* reported.
C18_Witness ==
    /\ Returned
    /\ TechItems = RepeatedTechs
    /\ Count(ValidationIssue(TechFile, "/techs/1/id", "duplicate tech id 'A'")) = 1
    /\ Count(ValidationIssue(TechFile, "/techs/3/id", "duplicate tech id 'A'")) = 1
    /\ Count(ValidationIssue(TechFile, "/techs/4/id", "duplicate tech id 'B'")) = 1
    /\ IssuesOf(TechFile) = 3

---------------------------------------------------------------------------
(* Duplicate design ids.                                                   *)

\* The designs with the id of the design d.
SameIdDesigns(d) == { u \in DesignRecords : Field(u.v, "id") = Get(d.v, "id") }

DuplicateDesignIssue(d) ==
    ValidationIssue(BlueprintsFile, JsonPointer(<< K("designs"), d.at, K("id") >>),
                    "duplicate design id '" \o Get(d.v, "id").s \o "'")

\* The "duplicate design id" issues of the run for the id.
DuplicateDesignIssues(id) ==
    { i \in 1..Len(issues) :
        /\ issues[i].file = BlueprintsFile
        /\ issues[i].message = "duplicate design id '" \o id \o "'" }

\* The name, the role and the component list of the design have the issues
\* of their own faults: one at the address of a faulty field or reference,
\* none at the address of a right one.
DesignValidated(d) ==
    /\ \A c \in { x \in DesignChecks :
                    x.pointer \in { JsonPointer(<< K("designs"), d.at, K(f) >>) :
                                      f \in {"name", "role", "components"} } } :
          IssuesAt(c.file, c.pointer) = (IF c.fails THEN 1 ELSE 0)
    /\ \A c \in Elems(Field(d.v, "components")) :
          IssuesAt(BlueprintsFile,
                   JsonPointer(<< K("designs"), d.at, K("components"), c.at >>))
              = (IF IsNonEmptyStr(c.v) /\ c.v.s \in component_ids THEN 0 ELSE 1)

---------------------------------------------------------------------------
(* A blueprint document with a section of the wrong kind.                  *)

BlueprintsTop == Top(files.blueprints)

\* The addresses of the blueprint document that are validated before its
\* components section: the version and the include list with its entries.
HeadAddresses ==
    { "/version", "/include" }
    \cup { JsonPointer(<< K("include"), e.at >>) :
             e \in Elems(Field(BlueprintsTop, "include")) }

\* The ids of the components line 436 keeps: an object with a valid name
\* under a non-empty id.
ComponentsKept ==
    { c.k : c \in { x \in ComponentRecords : IsNonEmptyStr(Get(x.v, "name")) } }

\* The designs section is validated: one issue at it if it is not an array,
\* otherwise one at each entry that is not an object, and at each design
\* the issues of its own faults.
DesignsValidated ==
    LET designs == Field(BlueprintsTop, "designs")
    IN  /\ IssuesAt(BlueprintsFile, "/designs") = (IF IsList(designs) THEN 0 ELSE 1)
        /\ \A d \in Elems(designs) :
              IF IsDict(d.v) THEN DesignValidated(d)
              ELSE IssuesAt(BlueprintsFile, JsonPointer(<< K("designs"), d.at >>)) = 1

\* C20: in a returned run over a blueprint document that is an object,
\* (a) if its components section is missing or not an object, the file has
\* one issue at /components and none but at the version and the include
\* list, whatever its designs and installations hold, and the component
\* and installation id sets forwarded are empty; (b) if its components
\* section is an object and its installations section is not, there is
\* one issue at /installations, the designs are validated, the component
\* id set forwarded holds the components kept and the installation id set
\* is empty.
C20_InvalidSectionEndsBlueprints ==
    Returned /\ IsDict(BlueprintsTop) =>
        /\ ~IsDict(Get(BlueprintsTop, "components")) =>
              /\ IssuesAt(BlueprintsFile, "/components") = 1
              /\ \A i \in 1..Len(issues) :
                    issues[i].file = BlueprintsFile =>
                        issues[i].pointer \in HeadAddresses \cup {"/components"}
              /\ component_ids = {}
              /\ installation_ids = {}
        /\ IsDict(Get(BlueprintsTop, "components"))
             /\ ~IsDict(Get(BlueprintsTop, "installations")) =>
              /\ IssuesAt(BlueprintsFile, "/installations") = 1
              /\ DesignsValidated
              /\ component_ids = ComponentsKept
              /\ installation_ids = {}

\* C20 witness: a returned run over a document with no components section
\* whose designs and installations hold faulty records: the one issue of
\* the file is at /components, and both unlock effects of the tech tree are
\* unresolved.
C20_Witness ==
    /\ Returned
    /\ IsDict(BlueprintsTop)
    /\ ~Has(BlueprintsTop, "components")
    /\ \E d \in Elems(Field(BlueprintsTop, "designs")) : d.v = JInt(1)
    /\ Field(Field(BlueprintsTop, "installations"), "dock") = JInt(1)
    /\ IssuesOf(BlueprintsFile) = 1
    /\ IssuesAt(BlueprintsFile, "/components") = 1
    /\ component_ids = {}
    /\ installation_ids = {}
    /\ IssuesAt(TechFile, "/techs/0/effects/0/value") = 1
    /\ IssuesAt(TechFile, "/techs/1/effects/0/value") = 1

---------------------------------------------------------------------------
(* The marker sets and the stack during the walk.                          *)

\* The ids on the stack.
OnStack == { stack[k] : k \in 1..Len(stack) }

\* The existing prerequisites of a tech: the ids its edges lead to.
ExistingPrereqs(t) == { e[2] : e \in { x \in PrereqEdges : x[1] = t } }

\* The walk is between two calls of dfs from the root loop, before the
\* first or after the last: no call of dfs is active.
BetweenRootCalls == pc = "dfs" /\ frames = << >>

\* C21: in every state of the walk, at each call of dfs, each iteration of
\* its loop and each end of a call, 'visiting' and 'visited' are disjoint,
\* the stack holds no id twice and its ids are those of 'visiting', each
\* id on the stack has the one above it among its prerequisites, and
\* between two root calls 'visiting' and the stack are empty; and a step
\* of the walk adds to 'visited' only a tech each of whose existing
\* prerequisites is visited or on the stack.
C21_WalkInvariants ==
    /\ [](pc = "dfs" =>
            /\ visiting \cap visited = {}
            /\ \A k, l \in 1..Len(stack) : k # l => stack[k] # stack[l]
            /\ OnStack = visiting
            /\ \A k \in 1..(Len(stack) - 1) : << stack[k], stack[k + 1] >> \in PrereqEdges
            /\ BetweenRootCalls => visiting = {} /\ stack = << >>)
    /\ [][pc = "dfs" =>
            \A t \in visited' \ visited :
                ExistingPrereqs(t) \subseteq visited \cup OnStack]_vars

\* C21 witness: a state of the walk with two ids on the stack, the second
\* a prerequisite of the first, and in 'visited' a tech whose prerequisite
\* is the id at the bottom of the stack.
C21_Witness ==
    /\ pc = "dfs"
    /\ Len(stack) = 2
    /\ OnStack = visiting
    /\ << stack[1], stack[2] >> \in PrereqEdges
    /\ visiting \cap visited = {}
    /\ \E t \in visited : stack[1] \in ExistingPrereqs(t)

=============================================================================
